---- MODULE Spec2Model ----
(***************************************************************************)
(* Model of the authentication / authorization core of auth-portal:        *)
(*   - the auth service (internal/service, auth part): OAuth state records *)
(*     and login sessions kept in Redis, the two login flows and the       *)
(*     session-to-token exchange;                                          *)
(*   - the gRPC auth interceptor (pkg/auth) with its token parsing and the *)
(*     role check;                                                         *)
(*   - the token functions (internal/utils): issuing a user token and      *)
(*     reading it back.                                                    *)
(* Every Redis / repository / provider round trip of a handler is one step *)
(* of the calling process, so that concurrent calls interleave exactly at  *)
(* the points where the code talks to the outside.  Time is a logical      *)
(* clock in whole ticks; a Redis key is gone as soon as its deadline is    *)
(* reached.                                                                *)
(***************************************************************************)
EXTENDS Integers, Sequences, FiniteSets, TLC

\* ---------------------------------------------------------------- bounds
MaxTime == 2          \* the clock stops ticking here
MaxCalls == 3         \* handler invocations in one run
MaxStates == 2        \* distinct OAuth state values ever generated
MaxSessions == 2      \* distinct session ids ever generated
MaxUsers == 2         \* rows the users table can hold

\* ------------------------------------------------------- configuration
\* configs.Load: auth.oauth_state_expiration_minutes, in ticks
OAuthStateExpirationDuration == 1
\* configs.Load: session.expiration_hours, in ticks
SessionExpirationDuration == 2
\* configs.Load: auth.jwt_secret
JWTSecret == "jwt-secret"
\* NewAuthService: oauthConfigs has the single entry "github"
oauthConfigs == {"github"}
\* oauthConfigs["github"].RedirectURL
GithubRedirectURL == "https://default/cb"

\* the calls that can be in flight at the same time
Procs == {1, 2}
StateKeys == 1..MaxStates
SessionIds == 1..MaxSessions
UserIds == 1..MaxUsers

\* -------------------------------------------------------- input domains
Providers == {"", "github", "gitlab"}
RedirectURLs == {"", "https://custom/cb"}
\* what extractUserAgent / extractIPAddress find on a call
NoClient == [userAgent |-> "", ipAddress |-> ""]
Clients ==
  { NoClient,
    [userAgent |-> "ua-a", ipAddress |-> "10.0.0.1"],
    [userAgent |-> "ua-b", ipAddress |-> "10.0.0.1"],
    [userAgent |-> "ua-a", ipAddress |-> "10.0.0.2"] }
GithubIDs == {"gh-1"}
Emails == {"", "root@x", "dev@x", "ghost@x"}
Passwords == {"", "pw-good", "pw-bad"}
Codes == {"", "code"}

\* the clients that ask for a code URL: validateState compares what they
\* sent with what the client of the login sends, for emptiness and for
\* equality only, so one client sending nothing and one sending both, met
\* by every client at the login, make every outcome of the comparison
CodeClients ==
  { NoClient, [userAgent |-> "ua-a", ipAddress |-> "10.0.0.1"] }

\* the requests a run draws from: every kind of request, or only requests
\* that are complete and come from clients sending no user agent or address
AllRequests ==
  [providers |-> Providers, redirectURLs |-> RedirectURLs,
   codeClients |-> CodeClients, clients |-> Clients,
   codes |-> Codes, emails |-> Emails, passwords |-> Passwords, empty |-> {0}]
CompleteRequests ==
  [providers |-> {"github"}, redirectURLs |-> {""},
   codeClients |-> {NoClient}, clients |-> {NoClient},
   codes |-> {"code"}, emails |-> {"root@x"}, passwords |-> {"pw-good"},
   empty |-> {}]

VARIABLES
  now,          \* time.Now(), shared by service and store
  oauthState,   \* Redis keys oauth_state:<state>
  session,      \* Redis keys session:<id>
  users,        \* users table behind repository.UserRepository
  call,         \* per process: the handler it runs, its locals, its result
  consumed,     \* states whose LoginByOAuth has returned a session
  logins,       \* what the logins returned whose session is still in Redis
  issued,       \* tokens returned by GetUserToken
  rnd,          \* how many state values / session ids / user ids were drawn
  cfg,          \* start-up outcome: internal token, enforcer built or not
  gate,         \* the last call that went through the auth interceptor
  trip,         \* a token made by the token functions and read back
  conv,         \* a role value taken through the role conversions
  qry           \* a session key asked for its expiration time

vars ==
  <<now, oauthState, session, users, call, consumed, logins, issued, rnd, cfg,
    gate, trip, conv, qry>>

\* what the handlers and the interceptor never touch
pure == <<trip, conv, qry>>

\* ------------------------------------------------------------ records
\* OAuthStateData, plus the deadline Redis keeps for the key
NoState ==
  [exists |-> FALSE, provider |-> "", redirectURL |-> "", userAgent |-> "",
   ipAddress |-> "", createdAt |-> 0, expiresAt |-> 0, ttlAt |-> 0]

\* value of a session:<id> key (the user id) and the key's deadline
NoSession == [exists |-> FALSE, userID |-> 0, ttlAt |-> 0]

\* model.UserModel (the columns the auth flows read or write)
NoUser ==
  [exists |-> FALSE, name |-> "", role |-> "", email |-> "", githubID |-> "",
   password |-> "", lastLoginAt |-> 0]

\* user_v1_pb.UpdateUserRequest without its id: four optional fields, each
\* absent (<<>>) or present (<<value>>)
NoUpdate == [name |-> <<>>, email |-> <<>>, githubId |-> <<>>, role |-> <<>>]

\* a time.Time: whole seconds and the part below the second.  The clock of
\* the service stands on whole seconds; an expiry handed to the token
\* functions need not
HalfSecond == 500000000
Time(sec) == [sec |-> sec, nsec |-> 0]

\* time.Time.Unix: the seconds, the part below the second dropped
Unix(t) == t.sec

\* time.Time.Before
Before(a, b) == a.sec < b.sec \/ (a.sec = b.sec /\ a.nsec < b.nsec)

\* auth_v1_pb.UserToken: the signed claims and the ExpiresAt field
NoToken ==
  [exists |-> FALSE, user_id |-> 0, user_role |-> "", exp |-> 0, key |-> "",
   expiresAt |-> Time(0)]

\* oauth2.Config.AuthCodeURL: the query parameters that vary
NoURL == [redirect_uri |-> "", state |-> 0]
AuthCodeURL(redirectURL, state) == [redirect_uri |-> redirectURL, state |-> state]

\* a process that runs no handler.  Among the locals are stateData (the
\* record rdb.Get answered with, kept while the call checks and uses it),
\* ttl (what rdb.TTL answered, kept until the clock is read) and row (the
\* user row a repository lookup loaded or the call built, with the time the
\* call read for it, kept until it is saved).  Besides the request, the
\* locals and the response, a call remembers: late (the state it presents
\* had already been used by a completed login when the call came in),
\* expiredSeen (the state record it got was past its expiresAt when it
\* read the clock), refreshedAt (when Redis applied
\* its EXPIRE, -1 if it did not) and readTTLAt (the deadline the session key
\* had in Redis when rdb.TTL answered the call), verdict (what validateState
\* made of the record it read), failures (the outside calls of this request
\* that came back with an error) and gone (Redis reported the session key
\* missing to this call)
IdleCall ==
  [op |-> "none", pc |-> "idle", status |-> "",
   provider |-> "", redirectURL |-> "", code |-> "", state |-> 0,
   email |-> "", password |-> "", sessionID |-> 0,
   userAgent |-> "", ipAddress |-> "",
   stateData |-> NoState, gid |-> "", uid |-> 0, isNewUser |-> FALSE,
   row |-> NoUser, req |-> NoUpdate,
   newID |-> 0, ttl |-> 0, expiresAt |-> 0, token |-> NoToken,
   late |-> FALSE, expiredSeen |-> FALSE, refreshedAt |-> -1,
   readTTLAt |-> -1, verdict |-> "", failures |-> {}, gone |-> FALSE,
   url |-> NoURL]

\* the users table at start-up: an administrator with a password; accounts
\* without a password come into being through LoginByOAuth
InitUsers ==
  [u \in UserIds |->
     IF u = 1 THEN [exists |-> TRUE, name |-> "root", role |-> "admin",
                    email |-> "root@x", githubID |-> "",
                    password |-> "pw-good", lastLoginAt |-> 0]
     ELSE NoUser]

\* the e-mail address and the name GitHub reports for an account
EmailOf(gid) == IF gid = "gh-1" THEN "dev@x" ELSE "new@x"
NameOf(gid) == IF gid = "gh-1" THEN "dev" ELSE "new"

\* process p can take the next incoming call
Free(p) == call[p].pc \in {"idle", "done"} /\ rnd.calls < MaxCalls

\* the handler returns: only the request and the response stay behind
Return(c, st) ==
  [IdleCall EXCEPT !.op = c.op, !.pc = "done", !.status = st,
     !.code = c.code, !.state = c.state, !.sessionID = c.sessionID,
     !.provider = c.provider, !.email = c.email, !.password = c.password,
     !.late = c.late, !.expiredSeen = c.expiredSeen, !.newID = c.newID,
     !.refreshedAt = c.refreshedAt, !.verdict = c.verdict,
     !.failures = c.failures, !.gone = c.gone]

\* the call notes that an outside call came back with an error
Failed(c, what) == [c EXCEPT !.failures = @ \cup {what}]

\* ------------------------------------------------- OAuth state records
\* generateState building a record that expires the moment it is created
generateState_NoLifetime(provider, redirectURL, userAgent, ipAddress, t) ==
  [exists |-> TRUE, provider |-> provider, redirectURL |-> redirectURL,
   userAgent |-> userAgent, ipAddress |-> ipAddress, createdAt |-> t,
   expiresAt |-> t, ttlAt |-> 0]

\* generateState: the record built before it is written
generateState(provider, redirectURL, userAgent, ipAddress, t) ==
  [exists |-> TRUE, provider |-> provider, redirectURL |-> redirectURL,
   userAgent |-> userAgent, ipAddress |-> ipAddress, createdAt |-> t,
   expiresAt |-> t + OAuthStateExpirationDuration, ttlAt |-> 0]

\* generateState: rdb.Set(stateKey, data, OAuthStateExpirationDuration)
SetState(store, k, sd, t) ==
  [store EXCEPT ![k] = [sd EXCEPT !.ttlAt = t + OAuthStateExpirationDuration]]

\* validateState without the expiry check
StateExpired_Never(sd, t) == FALSE

\* validateState: time.Now().After(stateData.ExpiresAt)
StateExpired(sd, t) == t > sd.expiresAt

\* the user-agent comparison that also fires when one side is empty
UserAgentMismatch_Strict(sd, userAgent) == sd.userAgent # userAgent

\* validateState: the user-agent comparison
UserAgentMismatch(sd, userAgent) ==
  sd.userAgent # "" /\ userAgent # "" /\ sd.userAgent # userAgent

\* validateState: the IP-address comparison
IPAddressMismatch(sd, ipAddress) ==
  sd.ipAddress # "" /\ ipAddress # "" /\ sd.ipAddress # ipAddress

\* validateState, after the record was read and decoded: what it returns
validateState(sd, userAgent, ipAddress, t) ==
  IF StateExpired(sd, t) THEN "expired"
  ELSE IF UserAgentMismatch(sd, userAgent) THEN "ua-mismatch"
  ELSE IF IPAddressMismatch(sd, ipAddress) THEN "ip-mismatch"
  ELSE "valid"

\* deleteState that leaves the key in place
deleteState_KeepsKey(store, k) == store

\* deleteState: rdb.Del(stateKey)
deleteState(store, k) == [store EXCEPT ![k] = NoState]

\* GetOAuthCodeURL: "use custom redirect URL if provided, otherwise default"
EffectiveRedirectURL(redirectURL) ==
  IF redirectURL = "" THEN GithubRedirectURL ELSE redirectURL

\* --------------------------------------------------- GetOAuthCodeURL
\* the handler with no check that the provider is configured
GetOAuthCodeURL_Start_AnyProvider(p, dom) ==
  /\ Free(p)
  /\ \E provider \in dom.providers, redirectURL \in dom.redirectURLs,
        cl \in dom.codeClients :
       LET c == [IdleCall EXCEPT !.op = "GetOAuthCodeURL", !.provider = provider,
                   !.redirectURL = redirectURL, !.userAgent = cl.userAgent,
                   !.ipAddress = cl.ipAddress]
       IN IF provider = ""
          THEN /\ call' = [call EXCEPT ![p] = Return(c, "InvalidArgument")]
               /\ rnd' = [rnd EXCEPT !.calls = @ + 1]
          ELSE /\ rnd.states < MaxStates
               /\ rnd' = [rnd EXCEPT !.states = @ + 1, !.calls = @ + 1]
               /\ call' = [call EXCEPT ![p] =
                     [c EXCEPT !.pc = "setState", !.newID = rnd.states + 1,
                        !.stateData = generateState(provider,
                           EffectiveRedirectURL(redirectURL), cl.userAgent,
                           cl.ipAddress, now)]]
  /\ UNCHANGED <<now, oauthState, session, users, consumed, logins, issued, cfg, gate, pure>>

\* the handler up to the Redis write inside generateState
GetOAuthCodeURL_Start(p, dom) ==
  /\ Free(p)
  /\ \E provider \in dom.providers, redirectURL \in dom.redirectURLs,
        cl \in dom.codeClients :
       LET userAgent == cl.userAgent
           ipAddress == cl.ipAddress
           c == [IdleCall EXCEPT !.op = "GetOAuthCodeURL", !.provider = provider,
                   !.redirectURL = redirectURL, !.userAgent = userAgent,
                   !.ipAddress = ipAddress]
       IN IF provider = "" \/ provider \notin oauthConfigs
          THEN /\ call' = [call EXCEPT ![p] = Return(c, "InvalidArgument")]
               /\ rnd' = [rnd EXCEPT !.calls = @ + 1]
          ELSE /\ rnd.states < MaxStates
               /\ rnd' = [rnd EXCEPT !.states = @ + 1, !.calls = @ + 1]
               /\ call' = [call EXCEPT ![p] =
                     [c EXCEPT !.pc = "setState", !.newID = rnd.states + 1,
                        !.stateData = generateState(provider,
                           EffectiveRedirectURL(redirectURL), userAgent,
                           ipAddress, now)]]
  /\ UNCHANGED <<now, oauthState, session, users, consumed, logins, issued, cfg, gate, pure>>

\* generateState's rdb.Set and the rest of the handler
GetOAuthCodeURL_Set(p) ==
  /\ call[p].op = "GetOAuthCodeURL" /\ call[p].pc = "setState"
  /\ \E redisOK \in BOOLEAN :
       IF redisOK
       THEN /\ oauthState' = SetState(oauthState, call[p].newID,
                                      call[p].stateData, now)
            /\ call' = [call EXCEPT ![p] =
                  [Return(call[p], "OK") EXCEPT !.url =
                     AuthCodeURL(call[p].stateData.redirectURL, call[p].newID)]]
       ELSE /\ oauthState' = oauthState
            /\ call' = [call EXCEPT ![p] =
                  [Return(Failed(call[p], "state.Set"), "Internal")
                     EXCEPT !.newID = 0]]
  /\ UNCHANGED <<now, session, users, consumed, logins, issued, rnd, cfg, gate, pure>>

\* ------------------------------------------------------- LoginByOAuth
\* the request check that looks at the state only
LoginByOAuth_Start_StateOnly(p, dom) ==
  /\ Free(p)
  /\ \E code \in dom.codes, state \in dom.empty \cup 1..rnd.states,
        cl \in dom.clients :
       LET c == [IdleCall EXCEPT !.op = "LoginByOAuth", !.code = code,
                   !.state = state, !.userAgent = cl.userAgent,
                   !.ipAddress = cl.ipAddress, !.late = (state \in consumed)]
       IN call' = [call EXCEPT ![p] =
            IF state = 0 THEN Return(c, "InvalidArgument")
            ELSE [c EXCEPT !.pc = "validateState"]]
  /\ rnd' = [rnd EXCEPT !.calls = @ + 1]
  /\ UNCHANGED <<now, oauthState, session, users, consumed, logins, issued, cfg, gate, pure>>

\* the request check at the top of the handler
LoginByOAuth_Start(p, dom) ==
  /\ Free(p)
  /\ \E code \in dom.codes, state \in dom.empty \cup 1..rnd.states,
        cl \in dom.clients :
       LET c == [IdleCall EXCEPT !.op = "LoginByOAuth", !.code = code,
                   !.state = state, !.userAgent = cl.userAgent,
                   !.ipAddress = cl.ipAddress, !.late = (state \in consumed)]
       IN call' = [call EXCEPT ![p] =
            IF code = "" \/ state = 0 THEN Return(c, "InvalidArgument")
            ELSE [c EXCEPT !.pc = "validateState"]]
  /\ rnd' = [rnd EXCEPT !.calls = @ + 1]
  /\ UNCHANGED <<now, oauthState, session, users, consumed, logins, issued, cfg, gate, pure>>

\* validateState: rdb.Get of the state key; the record it answers with is
\* decoded and kept
LoginByOAuth_Validate(p) ==
  /\ call[p].op = "LoginByOAuth" /\ call[p].pc = "validateState"
  /\ \E redisOK \in BOOLEAN :
       LET c == call[p]
           sd == oauthState[c.state]
       IN call' = [call EXCEPT ![p] =
            IF ~redisOK THEN Return(Failed(c, "state.Get"), "InvalidArgument")
            ELSE IF ~sd.exists THEN Return(c, "InvalidArgument")
            ELSE [c EXCEPT !.pc = "checkState", !.stateData = sd]]
  /\ UNCHANGED <<now, oauthState, session, users, consumed, logins, issued, rnd, cfg, gate, pure>>

\* the checks that delete the record of a call they reject for its client
LoginByOAuth_CheckState_DropsOnMismatch(p) ==
  /\ call[p].op = "LoginByOAuth" /\ call[p].pc = "checkState"
  /\ LET c == call[p]
         sd == c.stateData
         v == validateState(sd, c.userAgent, c.ipAddress, now)
         d == [c EXCEPT !.expiredSeen = sd.expiresAt < now, !.verdict = v]
     IN /\ call' = [call EXCEPT ![p] =
             IF v = "expired" THEN [d EXCEPT !.pc = "deleteExpired"]
             ELSE IF v = "valid" THEN [d EXCEPT !.pc = "deleteState"]
             ELSE Return(d, "InvalidArgument")]
        /\ oauthState' =
             IF v \in {"ua-mismatch", "ip-mismatch"}
             THEN deleteState(oauthState, c.state)
             ELSE oauthState
  /\ UNCHANGED <<now, session, users, consumed, logins, issued, rnd, cfg, gate, pure>>

\* validateState, after the reply of Redis: time.Now() is read and the
\* decoded record is checked against it and against the client of the call
LoginByOAuth_CheckState(p) ==
  /\ call[p].op = "LoginByOAuth" /\ call[p].pc = "checkState"
  /\ LET c == call[p]
         sd == c.stateData
         v == validateState(sd, c.userAgent, c.ipAddress, now)
         d == [c EXCEPT !.expiredSeen = sd.expiresAt < now, !.verdict = v]
     IN call' = [call EXCEPT ![p] =
          IF v = "expired" THEN [d EXCEPT !.pc = "deleteExpired"]
          ELSE IF v = "valid" THEN [d EXCEPT !.pc = "deleteState"]
          ELSE Return(d, "InvalidArgument")]
  /\ UNCHANGED <<now, oauthState, session, users, consumed, logins, issued, rnd, cfg, gate, pure>>

\* validateState: "clean up expired state", whose failure is only logged
LoginByOAuth_DeleteExpired(p) ==
  /\ call[p].op = "LoginByOAuth" /\ call[p].pc = "deleteExpired"
  /\ \E redisOK \in BOOLEAN :
       IF redisOK
       THEN /\ oauthState' = deleteState(oauthState, call[p].state)
            /\ call' = [call EXCEPT ![p] = Return(call[p], "InvalidArgument")]
       ELSE /\ oauthState' = oauthState
            /\ call' = [call EXCEPT ![p] =
                  Return(Failed(call[p], "state.Del"), "InvalidArgument")]
  /\ UNCHANGED <<now, session, users, consumed, logins, issued, rnd, cfg, gate, pure>>

\* the exchange always done with the redirect URL of the configuration
ExchangeRedirectURL_FromConfig(recorded) == GithubRedirectURL

\* LoginByOAuth: "use the redirect URL from state if available, otherwise
\* use default from config", the RedirectURL of the copied oauth2 config
ExchangeRedirectURL(recorded) ==
  IF recorded = "" THEN GithubRedirectURL ELSE recorded

\* "Delete used state" whose failure is logged and nothing more
LoginByOAuth_DeleteState_LogOnly(p) ==
  /\ call[p].op = "LoginByOAuth" /\ call[p].pc = "deleteState"
  /\ \E redisOK \in BOOLEAN :
       LET c == IF redisOK THEN call[p] ELSE Failed(call[p], "state.Del")
       IN /\ oauthState' = IF redisOK THEN deleteState(oauthState, c.state)
                           ELSE oauthState
          /\ call' = [call EXCEPT ![p] =
                IF c.stateData.provider \notin oauthConfigs
                THEN Return(c, "InvalidArgument")
                ELSE [c EXCEPT !.pc = "exchange",
                        !.provider = c.stateData.provider,
                        !.redirectURL =
                           ExchangeRedirectURL(c.stateData.redirectURL)]]
  /\ UNCHANGED <<now, session, users, consumed, logins, issued, rnd, cfg, gate, pure>>

\* "Delete used state", then the provider lookup
LoginByOAuth_DeleteState(p) ==
  /\ call[p].op = "LoginByOAuth" /\ call[p].pc = "deleteState"
  /\ \E redisOK \in BOOLEAN :
       IF ~redisOK
       THEN /\ oauthState' = oauthState
            /\ call' = [call EXCEPT ![p] =
                  Return(Failed(call[p], "state.Del"), "Internal")]
       ELSE /\ oauthState' = deleteState(oauthState, call[p].state)
            /\ call' = [call EXCEPT ![p] =
                  IF call[p].stateData.provider \notin oauthConfigs
                  THEN Return(call[p], "InvalidArgument")
                  ELSE [call[p] EXCEPT !.pc = "exchange",
                          !.provider = call[p].stateData.provider,
                          !.redirectURL =
                             ExchangeRedirectURL(call[p].stateData.redirectURL)]]
  /\ UNCHANGED <<now, session, users, consumed, logins, issued, rnd, cfg, gate, pure>>

\* the exchange that writes the state record back when the provider fails
LoginByOAuth_Exchange_RestoresState(p) ==
  /\ call[p].op = "LoginByOAuth" /\ call[p].pc = "exchange"
  /\ \E exchangeOK \in BOOLEAN :
       IF ~exchangeOK
       THEN /\ call' = [call EXCEPT ![p] =
                  Return(Failed(call[p], "provider"), "Internal")]
            /\ oauthState' = SetState(oauthState, call[p].state,
                                      call[p].stateData, now)
       ELSE /\ call' = [call EXCEPT ![p].pc = "userInfo"]
            /\ oauthState' = oauthState
  /\ UNCHANGED <<now, session, users, consumed, logins, issued, rnd, cfg, gate, pure>>

\* "Exchange code for token": customOauthConfig.Exchange at the provider
LoginByOAuth_Exchange(p) ==
  /\ call[p].op = "LoginByOAuth" /\ call[p].pc = "exchange"
  /\ \E exchangeOK \in BOOLEAN :
       call' = [call EXCEPT ![p] =
          IF ~exchangeOK
          THEN Return(Failed(call[p], "provider"), "Internal")
          ELSE [call[p] EXCEPT !.pc = "userInfo"]]
  /\ UNCHANGED <<now, oauthState, session, users, consumed, logins, issued, rnd, cfg, gate, pure>>

\* provider.GetUserProvider: GitHub is the only provider there is
GetUserProvider(name) == name = "github"

\* "Get user info from provider": GetUserProvider for the provider of the
\* state record, then GetUserInfo at the provider with the access token
LoginByOAuth_GetUserInfo(p) ==
  /\ call[p].op = "LoginByOAuth" /\ call[p].pc = "userInfo"
  /\ \E infoOK \in BOOLEAN, gid \in GithubIDs :
       call' = [call EXCEPT ![p] =
          IF ~GetUserProvider(call[p].provider) \/ ~infoOK
          THEN Return(Failed(call[p], "provider"), "Internal")
          ELSE [call[p] EXCEPT !.pc = "findUser", !.gid = gid]]
  /\ UNCHANGED <<now, oauthState, session, users, consumed, logins, issued, rnd, cfg, gate, pure>>

\* ------------------------------------------------------------ sessions
\* createSession that ends the other sessions of the user
createSession_SingleSession(store, id, userID, t) ==
  [k \in DOMAIN store |->
     IF k = id
     THEN [exists |-> TRUE, userID |-> userID,
           ttlAt |-> t + SessionExpirationDuration]
     ELSE IF store[k].exists /\ store[k].userID = userID THEN NoSession
     ELSE store[k]]

\* createSession: rdb.Set(sessionKey, userID, Session.ExpirationDuration)
createSession(store, id, userID, t) ==
  [store EXCEPT ![id] = [exists |-> TRUE, userID |-> userID,
                         ttlAt |-> t + SessionExpirationDuration]]

\* refreshSession that adds the lifetime to the deadline the key has
refreshSession_Extends(store, id, t) ==
  IF store[id].exists
  THEN [store EXCEPT ![id].ttlAt = @ + SessionExpirationDuration]
  ELSE store

\* refreshSession done by writing the key anew, without its value
refreshSession_Rewrites(store, id, t) ==
  [store EXCEPT ![id] = [exists |-> TRUE, userID |-> 0,
                         ttlAt |-> t + SessionExpirationDuration]]

\* refreshSession: rdb.Expire(sessionKey, Session.ExpirationDuration);
\* EXPIRE on a missing key changes nothing and is no error
refreshSession(store, id, t) ==
  IF store[id].exists
  THEN [store EXCEPT ![id].ttlAt = t + SessionExpirationDuration]
  ELSE store

\* rdb.TTL(sessionKey), the replies Redis can give at time t: -2 for a
\* missing key, -1 for a key without expiry, else the time left rounded to
\* the nearest whole second.  The clock and the deadlines of the model are
\* the whole seconds of times whose parts below the second it does not
\* keep: with d whole seconds between them the time left lies between d - 1
\* and d + 1, so the reply is d or one second off; a key is never given
\* more than the session lifetime, which bounds the reply that is rounded up
RedisTTL(store, id, t) ==
  IF ~store[id].exists THEN {-2}
  ELSE IF store[id].ttlAt < 0 THEN {-1}
  ELSE LET d == store[id].ttlAt - t
       IN {r \in {d - 1, d, d + 1} :
             r >= 0 /\ (r <= d \/ r <= SessionExpirationDuration)}

\* getSessionExpirationTime that reports a missing key as Internal
getSessionExpirationTime_MissingIsInternal(ttl, t) ==
  IF ttl = -2 THEN [err |-> "Internal", at |-> 0]
  ELSE IF ttl = -1 THEN [err |-> "Internal", at |-> 0]
  ELSE [err |-> "", at |-> t + ttl]

\* getSessionExpirationTime, given the reply of rdb.TTL and what the clock
\* shows when time.Now() is read on its last line
getSessionExpirationTime(ttl, t) ==
  IF ttl = -2 THEN [err |-> "Unauthenticated", at |-> 0]
  ELSE IF ttl = -1 THEN [err |-> "Internal", at |-> 0]
  ELSE [err |-> "", at |-> t + ttl]

\* getSessionExpirationTime as a whole: rdb.TTL, which may fail, has
\* answered ttl, and the clock is read at t
SessionExpirationQuery(redisOK, ttl, t) ==
  IF ~redisOK THEN [err |-> "Internal", at |-> 0]
  ELSE getSessionExpirationTime(ttl, t)

\* UserRole.ToPb whose default branch gives the administrator role
ToPb_DefaultAdmin(role) ==
  IF role = "user" THEN "USER_ROLE_USER" ELSE "USER_ROLE_ADMIN"

\* UserRole.ToPb
ToPb(role) ==
  IF role = "user" THEN "USER_ROLE_USER"
  ELSE IF role = "admin" THEN "USER_ROLE_ADMIN"
  ELSE "USER_ROLE_USER"

\* the claims with exp rounded up to the next whole second
NewUserTokenClaimsWithExpiration_RoundsUp(userID, role, expiresAt) ==
  [user_id |-> userID, user_role |-> ToPb(role),
   exp |-> IF expiresAt.nsec > 0 THEN Unix(expiresAt) + 1 ELSE Unix(expiresAt)]

\* NewUserTokenClaimsWithExpiration: user_id, user_role, exp
NewUserTokenClaimsWithExpiration(userID, role, expiresAt) ==
  [user_id |-> userID, user_role |-> ToPb(role), exp |-> Unix(expiresAt)]

\* NewUserTokenWithExpiration: the claims under an HS256 signature made
\* with the secret, and the ExpiresAt field
NewUserTokenWithExpiration(userID, role, secret, expiresAt) ==
  LET claims == NewUserTokenClaimsWithExpiration(userID, role, expiresAt)
  IN [exists |-> TRUE, user_id |-> claims.user_id,
      user_role |-> claims.user_role, exp |-> claims.exp, key |-> secret,
      expiresAt |-> expiresAt]

\* userRepo.GetByGithubID / GetByEmail: the matching rows
GetByGithubID(gid) == {u \in UserIds : users[u].exists /\ users[u].githubID = gid}
GetByEmail(email) == {u \in UserIds : users[u].exists /\ users[u].email = email}

\* the repository turns a write of row under id down: the row to update is
\* not there, or another row has the e-mail address or the GitHub id
\* (unique columns)
Rejects(table, id, row, isNew) ==
  \/ ~isNew /\ ~table[id].exists
  \/ \E u \in UserIds \ {id} :
        /\ table[u].exists
        /\ \/ table[u].email = row.email
           \/ row.githubID # "" /\ table[u].githubID = row.githubID

\* userRepo.Update: the row the caller holds is saved under its id
Update(table, id, row) == [table EXCEPT ![id] = row]

\* userRepo.Delete
Delete(table, id) == [table EXCEPT ![id] = NoUser]

\* utils.VerifyPassword against the stored hash
VerifyPassword(password, stored) == password = stored

\* ------------------------------------------- LoginByOAuth, continued
\* "Find or create user": userRepo.GetByGithubID
LoginByOAuth_FindUser(p) ==
  /\ call[p].op = "LoginByOAuth" /\ call[p].pc = "findUser"
  /\ \E dbOK \in BOOLEAN :
       LET found == GetByGithubID(call[p].gid)
       IN call' = [call EXCEPT ![p] =
            IF ~dbOK THEN Return(Failed(call[p], "db"), "Internal")
            ELSE IF found = {}
            THEN [call[p] EXCEPT !.pc = "newUser", !.isNewUser = TRUE]
            ELSE LET u == CHOOSE u \in found : TRUE
                 IN [call[p] EXCEPT !.pc = "lastLogin", !.uid = u,
                                    !.row = users[u]]]
  /\ UNCHANGED <<now, oauthState, session, users, consumed, logins, issued, rnd, cfg, gate, pure>>

\* "Create new user": time.Now() is read and the row is built from what
\* the provider reported
LoginByOAuth_NewUser(p) ==
  /\ call[p].op = "LoginByOAuth" /\ call[p].pc = "newUser"
  /\ call' = [call EXCEPT ![p] =
        [call[p] EXCEPT !.pc = "createUser", !.row =
           [exists |-> TRUE, name |-> NameOf(call[p].gid), role |-> "user",
            email |-> EmailOf(call[p].gid), githubID |-> call[p].gid,
            password |-> "", lastLoginAt |-> now]]]
  /\ UNCHANGED <<now, oauthState, session, users, consumed, logins, issued, rnd, cfg, gate, pure>>

\* userRepo.Create of the new user; github_id and email are unique columns
LoginByOAuth_CreateUser(p) ==
  /\ call[p].op = "LoginByOAuth" /\ call[p].pc = "createUser"
  /\ \E dbOK \in BOOLEAN :
       LET row == call[p].row
           clash == \/ GetByGithubID(row.githubID) # {}
                    \/ GetByEmail(row.email) # {}
       IN IF ~dbOK \/ clash
          THEN /\ call' = [call EXCEPT ![p] =
                     Return(Failed(call[p], "db"), "Internal")]
               /\ UNCHANGED <<users, rnd>>
          ELSE /\ rnd.users < MaxUsers
               /\ rnd' = [rnd EXCEPT !.users = @ + 1]
               /\ users' = [users EXCEPT ![rnd.users + 1] = row]
               /\ call' = [call EXCEPT ![p] =
                     [call[p] EXCEPT !.pc = "createSession",
                        !.uid = rnd.users + 1, !.row = NoUser]]
  /\ UNCHANGED <<now, oauthState, session, consumed, logins, issued, cfg, gate, pure>>

\* "Update last login" of either login flow, before the save: time.Now()
\* is read and set as LastLoginAt on the row the call loaded
Login_LastLogin(p) ==
  /\ call[p].op \in {"LoginByOAuth", "LoginByPassword"}
  /\ call[p].pc = "lastLogin"
  /\ call' = [call EXCEPT ![p] =
        [call[p] EXCEPT !.pc = "updateUser", !.row.lastLoginAt = now]]
  /\ UNCHANGED <<now, oauthState, session, users, consumed, logins, issued, rnd, cfg, gate, pure>>

\* "Update last login" of either login flow: userRepo.Update saves the row
\* the call loaded, with the LastLoginAt it has set on it
Login_UpdateUser(p) ==
  /\ call[p].op \in {"LoginByOAuth", "LoginByPassword"}
  /\ call[p].pc = "updateUser"
  /\ \E dbOK \in BOOLEAN :
       IF ~dbOK \/ Rejects(users, call[p].uid, call[p].row, FALSE)
       THEN /\ call' = [call EXCEPT ![p] =
                  Return(Failed(call[p], "db"), "Internal")]
            /\ users' = users
       ELSE /\ users' = Update(users, call[p].uid, call[p].row)
            /\ call' = [call EXCEPT ![p] =
                  [call[p] EXCEPT !.pc = "createSession", !.row = NoUser]]
  /\ UNCHANGED <<now, oauthState, session, consumed, logins, issued, rnd, cfg, gate, pure>>

\* "Create login session" of either login flow: createSession
Login_CreateSession(p) ==
  /\ call[p].op \in {"LoginByOAuth", "LoginByPassword"}
  /\ call[p].pc = "createSession"
  /\ \E redisOK \in BOOLEAN :
       IF ~redisOK
       THEN /\ call' = [call EXCEPT ![p] =
                  Return(Failed(call[p], "session.Set"), "Internal")]
            /\ UNCHANGED <<session, rnd>>
       ELSE /\ rnd.sessions < MaxSessions
            /\ rnd' = [rnd EXCEPT !.sessions = @ + 1]
            /\ session' = createSession(session, rnd.sessions + 1, call[p].uid, now)
            /\ call' = [call EXCEPT ![p] =
                  [call[p] EXCEPT !.pc = "sessionTTL", !.newID = rnd.sessions + 1]]
  /\ UNCHANGED <<now, oauthState, users, consumed, logins, issued, cfg, gate, pure>>

\* "Get session expiration time" of either login flow: the rdb.TTL of
\* getSessionExpirationTime and the errors it leads to
Login_SessionTTL(p) ==
  /\ call[p].op \in {"LoginByOAuth", "LoginByPassword"}
  /\ call[p].pc = "sessionTTL"
  /\ \E redisOK \in BOOLEAN, ttl \in RedisTTL(session, call[p].newID, now) :
       LET r == getSessionExpirationTime(ttl, now)
       IN call' = [call EXCEPT ![p] =
            IF ~redisOK THEN Return(Failed(call[p], "session.TTL"), "Internal")
            ELSE IF r.err # ""
            THEN Return([call[p] EXCEPT !.gone = TRUE], "Internal")
            ELSE [call[p] EXCEPT !.pc = "sessionExpiry", !.ttl = ttl,
                    !.readTTLAt = session[call[p].newID].ttlAt]]
  /\ UNCHANGED <<now, oauthState, session, users, consumed, logins, issued, rnd, cfg, gate, pure>>

\* the last line of getSessionExpirationTime, time.Now().Add(ttl), and the
\* response of the login
Login_SessionExpiry(p) ==
  /\ call[p].op \in {"LoginByOAuth", "LoginByPassword"}
  /\ call[p].pc = "sessionExpiry"
  /\ LET r == getSessionExpirationTime(call[p].ttl, now)
     IN /\ call' = [call EXCEPT ![p] =
               [Return(call[p], "OK") EXCEPT !.expiresAt = r.at,
                  !.readTTLAt = call[p].readTTLAt]]
        /\ consumed' = IF call[p].op = "LoginByOAuth"
                        THEN consumed \cup {call[p].state} ELSE consumed
        /\ logins' = logins \cup
              {[op |-> call[p].op, sessionID |-> call[p].newID,
                uid |-> call[p].uid, expiresAt |-> r.at,
                role |-> users[call[p].uid].role]}
  /\ UNCHANGED <<now, oauthState, session, users, issued, rnd, cfg, gate, pure>>

\* ---------------------------------------------------- LoginByPassword
\* the request check at the top of the handler
LoginByPassword_Start(p, dom) ==
  /\ Free(p)
  /\ \E email \in dom.emails, password \in dom.passwords :
       LET c == [IdleCall EXCEPT !.op = "LoginByPassword", !.email = email,
                   !.password = password]
       IN call' = [call EXCEPT ![p] =
            IF email = "" \/ password = "" THEN Return(c, "InvalidArgument")
            ELSE [c EXCEPT !.pc = "getByEmail"]]
  /\ rnd' = [rnd EXCEPT !.calls = @ + 1]
  /\ UNCHANGED <<now, oauthState, session, users, consumed, logins, issued, cfg, gate, pure>>

\* the password checks without the one for an account that has no password
LoginByPassword_GetByEmail_NoHashCheck(p) ==
  /\ call[p].op = "LoginByPassword" /\ call[p].pc = "getByEmail"
  /\ \E dbOK \in BOOLEAN :
       LET found == GetByEmail(call[p].email)
           u == CHOOSE u \in found : TRUE
       IN call' = [call EXCEPT ![p] =
            IF ~dbOK THEN Return(Failed(call[p], "db"), "Internal")
            ELSE IF found = {} THEN Return(call[p], "NotFound")
            ELSE IF ~VerifyPassword(call[p].password, users[u].password)
            THEN Return(call[p], "Unauthenticated")
            ELSE [call[p] EXCEPT !.pc = "lastLogin", !.uid = u,
                                 !.row = users[u]]]
  /\ UNCHANGED <<now, oauthState, session, users, consumed, logins, issued, rnd, cfg, gate, pure>>

\* userRepo.GetByEmail, then the password checks
LoginByPassword_GetByEmail(p) ==
  /\ call[p].op = "LoginByPassword" /\ call[p].pc = "getByEmail"
  /\ \E dbOK \in BOOLEAN :
       LET found == GetByEmail(call[p].email)
           u == CHOOSE u \in found : TRUE
       IN call' = [call EXCEPT ![p] =
            IF ~dbOK THEN Return(Failed(call[p], "db"), "Internal")
            ELSE IF found = {} THEN Return(call[p], "NotFound")
            ELSE IF users[u].password = ""
            THEN Return(call[p], "FailedPrecondition")
            ELSE IF ~VerifyPassword(call[p].password, users[u].password)
            THEN Return(call[p], "Unauthenticated")
            ELSE [call[p] EXCEPT !.pc = "lastLogin", !.uid = u,
                                 !.row = users[u]]]
  /\ UNCHANGED <<now, oauthState, session, users, consumed, logins, issued, rnd, cfg, gate, pure>>

\* ------------------------------------------------------- GetUserToken
\* the request check at the top of the handler
GetUserToken_Start(p, dom) ==
  /\ Free(p)
  /\ \E sessionID \in dom.empty \cup 1..rnd.sessions :
       LET c == [IdleCall EXCEPT !.op = "GetUserToken", !.sessionID = sessionID]
       IN call' = [call EXCEPT ![p] =
            IF sessionID = 0 THEN Return(c, "InvalidArgument")
            ELSE [c EXCEPT !.pc = "getSession"]]
  /\ rnd' = [rnd EXCEPT !.calls = @ + 1]
  /\ UNCHANGED <<now, oauthState, session, users, consumed, logins, issued, cfg, gate, pure>>

\* getUserIDFromSession: rdb.Get(sessionKey)
GetUserToken_GetSession(p) ==
  /\ call[p].op = "GetUserToken" /\ call[p].pc = "getSession"
  /\ \E redisOK \in BOOLEAN :
       LET s == session[call[p].sessionID]
       IN call' = [call EXCEPT ![p] =
            IF ~redisOK
            THEN Return(Failed(call[p], "session.Get"), "Unauthenticated")
            ELSE IF ~s.exists
            THEN Return([call[p] EXCEPT !.gone = TRUE], "Unauthenticated")
            ELSE [call[p] EXCEPT !.pc = "refreshSession", !.uid = s.userID]]
  /\ UNCHANGED <<now, oauthState, session, users, consumed, logins, issued, rnd, cfg, gate, pure>>

\* getUserIDFromSession: refreshSession, whose failure is only logged
GetUserToken_Refresh(p) ==
  /\ call[p].op = "GetUserToken" /\ call[p].pc = "refreshSession"
  /\ \E redisOK \in BOOLEAN :
       IF redisOK
       THEN /\ session' = refreshSession(session, call[p].sessionID, now)
            /\ call' = [call EXCEPT ![p] =
                  [call[p] EXCEPT !.pc = "sessionTTL",
                     !.refreshedAt = IF session[call[p].sessionID].exists
                                     THEN now ELSE -1]]
       ELSE /\ session' = session
            /\ call' = [call EXCEPT ![p] =
                  [Failed(call[p], "session.Expire") EXCEPT !.pc = "sessionTTL"]]
  /\ UNCHANGED <<now, oauthState, users, consumed, logins, issued, rnd, cfg, gate, pure>>

\* "Get session expiration time after refresh": the rdb.TTL of
\* getSessionExpirationTime and the errors it leads to
GetUserToken_SessionTTL(p) ==
  /\ call[p].op = "GetUserToken" /\ call[p].pc = "sessionTTL"
  /\ \E redisOK \in BOOLEAN,
        ttl \in RedisTTL(session, call[p].sessionID, now) :
       LET r == getSessionExpirationTime(ttl, now)
       IN call' = [call EXCEPT ![p] =
            IF ~redisOK THEN Return(Failed(call[p], "session.TTL"), "Internal")
            ELSE IF r.err # ""
            THEN Return([call[p] EXCEPT !.gone = TRUE], "Internal")
            ELSE [call[p] EXCEPT !.pc = "sessionExpiry", !.ttl = ttl,
                    !.readTTLAt = session[call[p].sessionID].ttlAt]]
  /\ UNCHANGED <<now, oauthState, session, users, consumed, logins, issued, rnd, cfg, gate, pure>>

\* the last line of getSessionExpirationTime: time.Now().Add(ttl)
GetUserToken_SessionExpiry(p) ==
  /\ call[p].op = "GetUserToken" /\ call[p].pc = "sessionExpiry"
  /\ call' = [call EXCEPT ![p] =
        [call[p] EXCEPT !.pc = "getUser", !.ttl = 0,
           !.expiresAt = getSessionExpirationTime(call[p].ttl, now).at]]
  /\ UNCHANGED <<now, oauthState, session, users, consumed, logins, issued, rnd, cfg, gate, pure>>

\* the response with the role the user had when the session was created
GetUserToken_Issue_LoginRole(p) ==
  /\ call[p].op = "GetUserToken" /\ call[p].pc = "getUser"
  /\ \E dbOK \in BOOLEAN, signOK \in BOOLEAN :
       LET c == call[p]
           u == users[c.uid]
           atLogin == {l.role : l \in {m \in logins : m.sessionID = c.sessionID}}
           role == IF atLogin = {} THEN u.role ELSE CHOOSE r \in atLogin : TRUE
           tok == NewUserTokenWithExpiration(c.uid, role, JWTSecret,
                                             Time(c.expiresAt))
       IN IF ~dbOK \/ ~u.exists \/ ~signOK
          THEN /\ call' = [call EXCEPT ![p] =
                     Return(Failed(c, IF ~dbOK \/ ~u.exists THEN "db" ELSE "sign"),
                            "Internal")]
               /\ issued' = issued
          ELSE /\ call' = [call EXCEPT ![p] =
                     [Return(c, "OK") EXCEPT !.token = tok,
                        !.expiresAt = c.expiresAt, !.readTTLAt = c.readTTLAt]]
               /\ issued' = issued \cup
                     {[token |-> tok, sessionID |-> c.sessionID,
                       storeTTLAt |-> c.readTTLAt]}
  /\ UNCHANGED <<now, oauthState, session, users, consumed, logins, rnd, cfg, gate, pure>>

\* userRepo.GetByID, NewUserTokenWithExpiration and the response
GetUserToken_Issue(p) ==
  /\ call[p].op = "GetUserToken" /\ call[p].pc = "getUser"
  /\ \E dbOK \in BOOLEAN, signOK \in BOOLEAN :
       LET c == call[p]
           u == users[c.uid]
           tok == NewUserTokenWithExpiration(c.uid, u.role, JWTSecret,
                                             Time(c.expiresAt))
       IN IF ~dbOK \/ ~u.exists \/ ~signOK
          THEN /\ call' = [call EXCEPT ![p] =
                     Return(Failed(c, IF ~dbOK \/ ~u.exists THEN "db" ELSE "sign"),
                            "Internal")]
               /\ issued' = issued
          ELSE /\ call' = [call EXCEPT ![p] =
                     [Return(c, "OK") EXCEPT !.token = tok,
                        !.expiresAt = c.expiresAt, !.readTTLAt = c.readTTLAt]]
               /\ issued' = issued \cup
                     {[token |-> tok, sessionID |-> c.sessionID,
                       storeTTLAt |-> c.readTTLAt]}
  /\ UNCHANGED <<now, oauthState, session, users, consumed, logins, rnd, cfg, gate, pure>>

\* ---------------------------------------------------------------- time
\* Redis drops a key when its deadline is reached
Evict(store, none, t) ==
  [k \in DOMAIN store |->
     IF store[k].exists /\ store[k].ttlAt <= t THEN none ELSE store[k]]

\* jwt validation of exp: the token is good strictly before exp
TokenExpired(tok, t) == ~(t < tok.exp)

Tick ==
  /\ now < MaxTime
  /\ now' = now + 1
  /\ oauthState' = Evict(oauthState, NoState, now + 1)
  /\ session' = Evict(session, NoSession, now + 1)
  /\ issued' = {i \in issued : ~TokenExpired(i.token, now + 1)}
  /\ logins' = {l \in logins : session'[l.sessionID].exists}
  /\ UNCHANGED <<users, call, consumed, rnd, cfg, gate, pure>>

\* ---------------------------------------------------- auth interceptor
\* publicMethods with a UserService method slipped in
publicMethods_WithListUsers ==
  {"/AuthService/GetOAuthCodeURL", "/AuthService/LoginByOAuth",
   "/AuthService/LoginByPassword", "/AuthService/GetUserToken",
   "/UserService/ListUsers"}

\* cmd/grpc-server main: publicMethods
publicMethods ==
  {"/AuthService/GetOAuthCodeURL", "/AuthService/LoginByOAuth",
   "/AuthService/LoginByPassword", "/AuthService/GetUserToken"}

\* the methods of UserService, all behind the interceptor
ProtectedMethods ==
  {"/UserService/CreateUser", "/UserService/GetUser", "/UserService/ListUsers",
   "/UserService/UpdateUser", "/UserService/DeleteUser",
   "/UserService/GetCurrentUser"}

Methods == publicMethods \cup ProtectedMethods

\* configs/rbac_policy.csv as the enforcer tests describe it
Policy ==
  [role \in {"admin", "user"} |->
     IF role = "admin" THEN ProtectedMethods
     ELSE {"/UserService/GetUser", "/UserService/GetCurrentUser"}]

\* what can follow "authorization:": a JWT (its claims and the key it was
\* signed with) or a string that is no JWT
OpaqueTexts == {"", "internal-secret", "garbage"}
Opaque(text) ==
  [kind |-> "opaque", text |-> text, hasUserID |-> FALSE, user_id |-> 0,
   hasUserRole |-> FALSE, user_role |-> "", exp |-> 0, key |-> ""]
JWT(hasUserID, hasUserRole, role, exp, key) ==
  [kind |-> "jwt", text |-> "", hasUserID |-> hasUserID, user_id |-> 1,
   hasUserRole |-> hasUserRole, user_role |-> role, exp |-> exp, key |-> key]
PbRoles == {"USER_ROLE_UNSPECIFIED", "USER_ROLE_USER", "USER_ROLE_ADMIN"}
Credentials ==
  {Opaque(t) : t \in OpaqueTexts} \cup
  {JWT(TRUE, TRUE, r, e, k) :
     r \in PbRoles, e \in {2}, k \in {JWTSecret, "other-secret"}} \cup
  {JWT(FALSE, TRUE, "USER_ROLE_ADMIN", 2, JWTSecret),
   JWT(TRUE, FALSE, "", 2, JWTSecret)}

\* a header value: the credential behind nBearer copies of "Bearer "
HeaderValues == {[nBearer |-> n, cred |-> c] : n \in 0..2, c \in Credentials}

\* strings.TrimPrefix(authHeader[0], "Bearer "): one copy is removed
TrimPrefix(h) == IF h.nBearer > 0 THEN [h EXCEPT !.nBearer = @ - 1] ELSE h

\* the string a header value stands for equals the internal token
EqualsString(h, str) ==
  h.nBearer = 0 /\ h.cred.kind = "opaque" /\ h.cred.text = str

\* utils.ValidateUserToken: parse, check the HS256 signature and exp
ValidateUserToken(h, secret, t) ==
  /\ h.nBearer = 0
  /\ h.cred.kind = "jwt"
  /\ h.cred.key = secret
  /\ t < h.cred.exp

\* ParseUserToken that does not insist on the user_role claim
ParseUserToken_NoRoleCheck(h, secret, t) ==
  IF ~ValidateUserToken(h, secret, t) THEN [err |-> TRUE, UserID |-> 0, Role |-> ""]
  ELSE IF ~h.cred.hasUserID THEN [err |-> TRUE, UserID |-> 0, Role |-> ""]
  ELSE [err |-> FALSE, UserID |-> h.cred.user_id, Role |-> h.cred.user_role]

\* ParseUserToken: the error, or the UserInfo taken from the claims
ParseUserToken(h, secret, t) ==
  IF ~ValidateUserToken(h, secret, t) THEN [err |-> TRUE, UserID |-> 0, Role |-> ""]
  ELSE IF ~h.cred.hasUserID THEN [err |-> TRUE, UserID |-> 0, Role |-> ""]
  ELSE IF ~h.cred.hasUserRole THEN [err |-> TRUE, UserID |-> 0, Role |-> ""]
  ELSE [err |-> FALSE, UserID |-> h.cred.user_id, Role |-> h.cred.user_role]

\* convertRoleToString
convertRoleToString(role) ==
  IF role = "USER_ROLE_ADMIN" THEN "admin"
  ELSE IF role = "USER_ROLE_USER" THEN "user"
  ELSE "user"

\* CheckPermission that looks at the role only
CheckPermission_AnyMethod(role, method, enforceErr) ==
  IF enforceErr THEN [allowed |-> FALSE, err |-> TRUE]
  ELSE [allowed |-> Policy[role] # {}, err |-> FALSE]

\* CheckPermission: enforcer.Enforce(role, method), or its error
CheckPermission(role, method, enforceErr) ==
  IF enforceErr THEN [allowed |-> FALSE, err |-> TRUE]
  ELSE [allowed |-> method \in Policy[role], err |-> FALSE]

NoUserInfo == [set |-> FALSE, UserID |-> 0, Role |-> ""]
Rejected(code) ==
  [outcome |-> "Rejected", code |-> code, handler |-> 0, policy |-> FALSE,
   userInfo |-> NoUserInfo]
Admitted(policy, userInfo) ==
  [outcome |-> "Admitted", code |-> "", handler |-> 1, policy |-> policy,
   userInfo |-> userInfo]

\* the default branch answering a failed policy check with Unavailable
UserTokenBranch_Unavailable(method, header, enforcer, enforceErr, t) ==
  LET userInfo == ParseUserToken(TrimPrefix(header), JWTSecret, t)
      ctx == [set |-> TRUE, UserID |-> userInfo.UserID, Role |-> userInfo.Role]
  IN IF userInfo.err THEN Rejected("Unauthenticated")
     ELSE IF enforcer
     THEN LET r == CheckPermission(convertRoleToString(userInfo.Role), method,
                                   enforceErr)
          IN IF r.err THEN [Rejected("Unavailable") EXCEPT !.policy = TRUE]
             ELSE IF ~r.allowed
             THEN [Rejected("PermissionDenied") EXCEPT !.policy = TRUE]
             ELSE Admitted(TRUE, ctx)
     ELSE Admitted(FALSE, ctx)

\* the default branch of the switch: a user token
UserTokenBranch(method, header, enforcer, enforceErr, t) ==
  LET userInfo == ParseUserToken(TrimPrefix(header), JWTSecret, t)
      ctx == [set |-> TRUE, UserID |-> userInfo.UserID, Role |-> userInfo.Role]
  IN IF userInfo.err THEN Rejected("Unauthenticated")
     ELSE IF enforcer
     THEN LET r == CheckPermission(convertRoleToString(userInfo.Role), method,
                                   enforceErr)
          IN IF r.err THEN [Rejected("Internal") EXCEPT !.policy = TRUE]
             ELSE IF ~r.allowed
             THEN [Rejected("PermissionDenied") EXCEPT !.policy = TRUE]
             ELSE Admitted(TRUE, ctx)
     ELSE Admitted(FALSE, ctx)

\* case "internal" that turns every call away while no token is configured
InternalTokenBranch_NeedsSecret(header, internalToken) ==
  IF internalToken = "" \/ ~EqualsString(TrimPrefix(header), internalToken)
  THEN Rejected("Unauthenticated")
  ELSE Admitted(FALSE, NoUserInfo)

\* case "internal" that puts the first user into the context
InternalTokenBranch_AsFirstUser(header, internalToken) ==
  IF ~EqualsString(TrimPrefix(header), internalToken)
  THEN Rejected("Unauthenticated")
  ELSE Admitted(FALSE, [set |-> TRUE, UserID |-> 1, Role |-> "USER_ROLE_ADMIN"])

\* case "internal" without the comparison
InternalTokenBranch_AdmitAll(header, internalToken) ==
  Admitted(FALSE, NoUserInfo)

\* case "internal": the bearer value against auth.internal_token
InternalTokenBranch(header, internalToken) ==
  IF ~EqualsString(TrimPrefix(header), internalToken)
  THEN Rejected("Unauthenticated")
  ELSE Admitted(FALSE, NoUserInfo)

\* the interceptor taking every marker but "user" for the internal one
AuthInterceptor_UserMarkerOnly(method, hasMD, tokenType, authHeader, conf, enforceErr, t) ==
  IF method \in publicMethods THEN Admitted(FALSE, NoUserInfo)
  ELSE IF ~hasMD THEN Rejected("Unauthenticated")
  ELSE LET tt == IF Len(tokenType) = 0 THEN <<"user">> ELSE tokenType
       IN IF Len(authHeader) = 0 THEN Rejected("Unauthenticated")
          ELSE IF tt[1] # "user"
          THEN InternalTokenBranch(authHeader[1], conf.internalToken)
          ELSE UserTokenBranch(method, authHeader[1], conf.enforcer,
                               enforceErr, t)

\* the interceptor BuildAuthInterceptor returns.  tokenType and authHeader
\* are what md.Get returns: a sequence, empty when the key is absent; conf
\* holds auth.internal_token and whether NewEnforcer gave an enforcer
AuthInterceptor(method, hasMD, tokenType, authHeader, conf, enforceErr, t) ==
  IF method \in publicMethods THEN Admitted(FALSE, NoUserInfo)
  ELSE IF ~hasMD THEN Rejected("Unauthenticated")
  ELSE LET tt == IF Len(tokenType) = 0 THEN <<"user">> ELSE tokenType
       IN IF Len(authHeader) = 0 THEN Rejected("Unauthenticated")
          ELSE IF tt[1] = "internal"
          THEN InternalTokenBranch(authHeader[1], conf.internalToken)
          ELSE UserTokenBranch(method, authHeader[1], conf.enforcer,
                               enforceErr, t)

\* userService.GetCurrentUser, given what the interceptor put into the
\* context under ContextKeyUserInfo and whether userRepo.GetByID gets its
\* answer from the database: an error, or the user it returns
GetCurrentUser(userInfo, dbOK) ==
  IF ~userInfo.set THEN [err |-> TRUE, user |-> 0]
  ELSE IF ~dbOK THEN [err |-> TRUE, user |-> 0]
  ELSE IF userInfo.UserID \in UserIds /\ users[userInfo.UserID].exists
  THEN [err |-> FALSE, user |-> userInfo.UserID]
  ELSE [err |-> TRUE, user |-> 0]

NoGate ==
  [method |-> "", hasMD |-> FALSE, tokenType |-> <<>>, authHeader |-> <<>>,
   enforceErr |-> FALSE, at |-> 0, res |-> Rejected("")]

TokenTypes ==
  {<<>>, <<"user">>, <<"internal">>, <<"service">>, <<"Internal">>}
AuthHeaders == {<<>>} \cup {<<h>> : h \in HeaderValues}

\* one call arrives at the server and goes through the interceptor
GateCall ==
  /\ gate.method = ""
  /\ \E method \in Methods, hasMD \in BOOLEAN, tokenType \in TokenTypes,
        authHeader \in AuthHeaders,
        enforceErr \in (IF cfg.enforcer THEN BOOLEAN ELSE {FALSE}) :
       gate' = [method |-> method, hasMD |-> hasMD,
                tokenType |-> IF hasMD THEN tokenType ELSE <<>>,
                authHeader |-> IF hasMD THEN authHeader ELSE <<>>,
                enforceErr |-> enforceErr, at |-> now,
                res |-> AuthInterceptor(method, hasMD, tokenType, authHeader,
                                        cfg, enforceErr, now)]
  /\ UNCHANGED <<now, oauthState, session, users, call, consumed, logins, issued, rnd, cfg, pure>>

\* the response of that call has been sent
GateReturn ==
  /\ gate.method # ""
  /\ gate' = NoGate
  /\ UNCHANGED <<now, oauthState, session, users, call, consumed, logins, issued, rnd, cfg, pure>>

\* ------------------------------------------------- the token functions
\* jwtToken.SignedString: the string in UserToken.Token, as a header value
\* without "Bearer "
SignedString(tok) ==
  [nBearer |-> 0,
   cred |-> [kind |-> "jwt", text |-> "", hasUserID |-> TRUE,
             user_id |-> tok.user_id, hasUserRole |-> TRUE,
             user_role |-> tok.user_role, exp |-> tok.exp, key |-> tok.key]]

\* what a caller of ValidateUserToken gets: the error, or the claims
NoClaims == [err |-> TRUE, user_id |-> 0, user_role |-> "", exp |-> 0]
ClaimsOf(h, secret, t) ==
  IF ~ValidateUserToken(h, secret, t) THEN NoClaims
  ELSE [err |-> FALSE, user_id |-> h.cred.user_id,
        user_role |-> h.cred.user_role, exp |-> h.cred.exp]

\* the inputs of the token functions
Secrets == {JWTSecret, "other-secret"}
Roles == {"user", "admin"}
Expiries == {[sec |-> x, nsec |-> n] : x \in 0..(MaxTime + 1), n \in {0, HalfSecond}}

NoTrip ==
  [userID |-> 0, role |-> "", secret |-> "", expiresAt |-> Time(0), at |-> 0,
   token |-> NoToken, claims |-> NoClaims]

\* a token is made for an expiry that lies ahead and is verified at once
\* with the secret it was made with
TokenRoundTrip ==
  /\ trip = NoTrip
  /\ \E userID \in UserIds, role \in Roles, secret \in Secrets,
        expiresAt \in Expiries :
       /\ Before(Time(now), expiresAt)
       /\ LET tok == NewUserTokenWithExpiration(userID, role, secret, expiresAt)
          IN trip' = [userID |-> userID, role |-> role, secret |-> secret,
                      expiresAt |-> expiresAt, at |-> now, token |-> tok,
                      claims |-> ClaimsOf(SignedString(tok), secret, now)]
  /\ UNCHANGED <<now, oauthState, session, users, call, consumed, logins, issued, rnd,
                 cfg, gate, conv, qry>>

\* the token is dropped
TokenReturn ==
  /\ trip # NoTrip
  /\ trip' = NoTrip
  /\ UNCHANGED <<now, oauthState, session, users, call, consumed, logins, issued, rnd,
                 cfg, gate, conv, qry>>

\* ------------------------------------------------ the role conversions
\* UserRole.FromPb: the model role the receiver is set to
FromPb(pbRole) ==
  IF pbRole = "USER_ROLE_USER" THEN "user"
  ELSE IF pbRole = "USER_ROLE_ADMIN" THEN "admin"
  ELSE "user"

\* values of model.UserRole, a string type: the two constants and others
ModelRoleValues == {"user", "admin", "", "Admin", "root"}

\* values of user_v1_pb.UserRole, an int32 type: the three named ones and
\* numbers without a name
WireRoleValues == PbRoles \cup {"UserRole(3)", "UserRole(-1)"}

NoConv ==
  [role |-> "", pbRole |-> "", toPb |-> "", fromPb |-> "", roleStr |-> ""]

\* a model role and a wire role are converted
RoleConversion ==
  /\ conv = NoConv
  /\ \E role \in ModelRoleValues, pbRole \in WireRoleValues :
       conv' = [role |-> role, pbRole |-> pbRole, toPb |-> ToPb(role),
                fromPb |-> FromPb(pbRole),
                roleStr |-> convertRoleToString(pbRole)]
  /\ UNCHANGED <<now, oauthState, session, users, call, consumed, logins, issued, rnd,
                 cfg, gate, trip, qry>>

\* the results are dropped
RoleReturn ==
  /\ conv # NoConv
  /\ conv' = NoConv
  /\ UNCHANGED <<now, oauthState, session, users, call, consumed, logins, issued, rnd,
                 cfg, gate, trip, qry>>

\* the session keys getSessionExpirationTime can meet at time t: none, one
\* that was stored without expiry, one with a deadline ahead
QueryKeys(t) ==
  {NoSession, [exists |-> TRUE, userID |-> 1, ttlAt |-> -1]} \cup
  {[exists |-> TRUE, userID |-> 1, ttlAt |-> t + d] :
     d \in 1..SessionExpirationDuration}

NoQry ==
  [asked |-> FALSE, done |-> FALSE, key |-> NoSession, redisOK |-> TRUE,
   at |-> 0, ttl |-> 0, clock |-> 0, res |-> [err |-> "", at |-> 0]]

\* getSessionExpirationTime is called for a session key: rdb.TTL is
\* answered, and an error of it ends the call
ExpirationQuery ==
  /\ qry = NoQry /\ trip = NoTrip /\ conv = NoConv
  /\ \E key \in QueryKeys(now), redisOK \in BOOLEAN :
       \E ttl \in RedisTTL([k \in {1} |-> key], 1, now) :
          LET r == SessionExpirationQuery(redisOK, ttl, now)
          IN qry' = [asked |-> TRUE, done |-> r.err # "", key |-> key,
                     redisOK |-> redisOK, at |-> now,
                     ttl |-> IF r.err # "" THEN 0 ELSE ttl, clock |-> now,
                     res |-> IF r.err # "" THEN r ELSE NoQry.res]
  /\ UNCHANGED <<now, oauthState, session, users, call, consumed, logins, issued, rnd,
                 cfg, gate, trip, conv>>

\* the last line of getSessionExpirationTime: the clock is read and the
\* TTL that was answered is added to it
ExpirationClock ==
  /\ qry.asked /\ ~qry.done
  /\ qry' = [qry EXCEPT !.done = TRUE, !.clock = now,
               !.res = SessionExpirationQuery(qry.redisOK, qry.ttl, now)]
  /\ UNCHANGED <<now, oauthState, session, users, call, consumed, logins, issued, rnd,
                 cfg, gate, trip, conv>>

\* the answer is dropped
ExpirationReturn ==
  /\ qry.done
  /\ qry' = NoQry
  /\ UNCHANGED <<now, oauthState, session, users, call, consumed, logins, issued, rnd,
                 cfg, gate, trip, conv>>

\* the methods the holders of tokens call: one the policy gives to every
\* role, one it gives to the administrator only
HeldMethods == {"/UserService/GetCurrentUser", "/UserService/DeleteUser"}

\* the authorization values a client holds: "Bearer " and a token that
\* GetUserToken returned and that has not run out, or the value of its
\* last call through the interceptor once more
HeldHeaders ==
  {<<[SignedString(i.token) EXCEPT !.nBearer = 1]>> : i \in issued} \cup
  (IF gate.method # "" THEN {gate.authHeader} ELSE {})

\* the interceptor that wants a session of the subject in the store
GateCallHeld_NeedsSession ==
  /\ \E method \in HeldMethods, h \in HeldHeaders :
       gate' = [method |-> method, hasMD |-> TRUE, tokenType |-> <<>>,
                authHeader |-> h, enforceErr |-> FALSE, at |-> now,
                res |-> IF \E k \in SessionIds :
                              /\ session[k].exists
                              /\ session[k].userID = h[1].cred.user_id
                        THEN AuthInterceptor(method, TRUE, <<>>, h, cfg,
                                             FALSE, now)
                        ELSE Rejected("Unauthenticated")]
  /\ UNCHANGED <<now, oauthState, session, users, call, consumed, logins, issued, rnd, cfg, pure>>

\* a call on a protected method with a held authorization value and no
\* x-token-type goes through the interceptor
GateCallHeld ==
  /\ \E method \in HeldMethods, h \in HeldHeaders :
       gate' = [method |-> method, hasMD |-> TRUE, tokenType |-> <<>>,
                authHeader |-> h, enforceErr |-> FALSE, at |-> now,
                res |-> AuthInterceptor(method, TRUE, <<>>, h, cfg, FALSE, now)]
  /\ UNCHANGED <<now, oauthState, session, users, call, consumed, logins, issued, rnd, cfg, pure>>

\* ---------------------------------------------------------- UserService
\* the requests of UpdateUser that are tried: one field is present, or
\* all four are
UpdateRequests ==
  {[NoUpdate EXCEPT !.name = <<"dev">>], [NoUpdate EXCEPT !.email = <<"dev@x">>],
   [NoUpdate EXCEPT !.githubId = <<"gh-1">>],
   [name |-> <<"dev">>, email |-> <<"dev@x">>, githubId |-> <<"gh-1">>,
    role |-> <<"USER_ROLE_USER">>]} \cup
  {[NoUpdate EXCEPT !.role = <<r>>] : r \in PbRoles}

\* the requests of CreateUser that are tried
CreateRequests ==
  [name : {"dev"}, email : {"root@x", "dev@x"}, githubId : {<<>>, <<"gh-1">>},
   role : {"USER_ROLE_UNSPECIFIED", "USER_ROLE_ADMIN"}]

\* UserModel.UpdateFromPb: the fields the request has are put into the row
UpdateFromPb(u, req) ==
  [u EXCEPT !.name = IF req.name # <<>> THEN req.name[1] ELSE @,
            !.email = IF req.email # <<>> THEN req.email[1] ELSE @,
            !.githubID = IF req.githubId # <<>> THEN req.githubId[1] ELSE @,
            !.role = IF req.role # <<>> THEN FromPb(req.role[1]) ELSE @]

\* userService.CreateUser: the row is made from the request, its role
\* through FromPb, and handed to userRepo.Create
CreateUser(p) ==
  /\ Free(p)
  /\ \E req \in CreateRequests, dbOK \in BOOLEAN :
       LET c == [IdleCall EXCEPT !.op = "CreateUser"]
           id == rnd.users + 1
           row == [exists |-> TRUE, name |-> req.name,
                   role |-> FromPb(req.role), email |-> req.email,
                   githubID |-> IF req.githubId # <<>> THEN req.githubId[1]
                                ELSE "",
                   password |-> "", lastLoginAt |-> 0]
       IN IF ~dbOK \/ rnd.users >= MaxUsers \/ Rejects(users, id, row, TRUE)
          THEN /\ call' = [call EXCEPT ![p] = Return(Failed(c, "db"), "Unknown")]
               /\ users' = users
               /\ rnd' = [rnd EXCEPT !.calls = @ + 1]
          ELSE /\ call' = [call EXCEPT ![p] = Return([c EXCEPT !.uid = id], "OK")]
               /\ users' = Update(users, id, row)
               /\ rnd' = [rnd EXCEPT !.calls = @ + 1, !.users = id]
  /\ UNCHANGED <<now, oauthState, session, consumed, logins, issued, cfg, gate, pure>>

\* userService.UpdateUser: userRepo.GetByID loads the row of the request's id
UpdateUser_GetByID(p) ==
  /\ Free(p)
  /\ \E id \in UserIds, req \in UpdateRequests, dbOK \in BOOLEAN :
       LET c == [IdleCall EXCEPT !.op = "UpdateUser", !.uid = id, !.req = req]
       IN call' = [call EXCEPT ![p] =
            IF ~dbOK \/ ~users[id].exists
            THEN Return(Failed(c, "db"), "Unknown")
            ELSE [c EXCEPT !.pc = "update", !.row = users[id]]]
  /\ rnd' = [rnd EXCEPT !.calls = @ + 1]
  /\ UNCHANGED <<now, oauthState, session, users, consumed, logins, issued, cfg, gate, pure>>

\* userService.UpdateUser: UpdateFromPb on the row that was loaded, and
\* userRepo.Update saves that row
UpdateUser_Update(p) ==
  /\ call[p].op = "UpdateUser" /\ call[p].pc = "update"
  /\ \E dbOK \in BOOLEAN :
       LET row == UpdateFromPb(call[p].row, call[p].req)
       IN IF ~dbOK \/ Rejects(users, call[p].uid, row, FALSE)
          THEN /\ call' = [call EXCEPT ![p] =
                     Return(Failed(call[p], "db"), "Unknown")]
               /\ users' = users
          ELSE /\ call' = [call EXCEPT ![p] = Return(call[p], "OK")]
               /\ users' = Update(users, call[p].uid, row)
  /\ UNCHANGED <<now, oauthState, session, consumed, logins, issued, rnd, cfg, gate, pure>>

\* userService.DeleteUser: userRepo.Delete of the request's id
DeleteUser(p) ==
  /\ Free(p)
  /\ \E id \in UserIds, dbOK \in BOOLEAN :
       LET c == [IdleCall EXCEPT !.op = "DeleteUser", !.uid = id]
       IN IF ~dbOK
          THEN /\ call' = [call EXCEPT ![p] = Return(Failed(c, "db"), "Unknown")]
               /\ users' = users
          ELSE /\ call' = [call EXCEPT ![p] = Return(c, "OK")]
               /\ users' = Delete(users, id)
  /\ rnd' = [rnd EXCEPT !.calls = @ + 1]
  /\ UNCHANGED <<now, oauthState, session, consumed, logins, issued, cfg, gate, pure>>

\* one step of process p in UserService
UserStep(p) ==
  \/ CreateUser(p) \/ UpdateUser_GetByID(p) \/ UpdateUser_Update(p)
  \/ DeleteUser(p)

\* a session key leaves Redis by something other than the service: the
\* service has no operation that deletes a session
SessionKeyLost ==
  /\ \E k \in SessionIds :
       /\ session[k].exists
       /\ session' = [session EXCEPT ![k] = NoSession]
       /\ logins' = {l \in logins : l.sessionID # k}
  /\ UNCHANGED <<now, oauthState, users, call, consumed, issued, rnd, cfg, gate, pure>>

\* ------------------------------------------------------ specification

Init ==
  /\ now = 0
  /\ oauthState = [k \in StateKeys |-> NoState]
  /\ session = [k \in SessionIds |-> NoSession]
  /\ users = InitUsers
  /\ call = [p \in Procs |-> IdleCall]
  /\ consumed = {}
  /\ logins = {}
  /\ issued = {}
  /\ rnd = [states |-> 0, sessions |-> 0, users |-> 1, calls |-> 0]
  /\ cfg = [internalToken |-> "internal-secret", enforcer |-> TRUE]
  /\ gate = NoGate
  /\ trip = NoTrip
  /\ conv = NoConv
  /\ qry = NoQry

\* one step of process p, its requests drawn from dom
Step(p, dom) ==
  \/ GetOAuthCodeURL_Start(p, dom)
  \/ GetOAuthCodeURL_Set(p)
  \/ LoginByOAuth_Start(p, dom)
  \/ LoginByOAuth_Validate(p)
  \/ LoginByOAuth_CheckState(p)
  \/ LoginByOAuth_DeleteExpired(p)
  \/ LoginByOAuth_DeleteState(p)
  \/ LoginByOAuth_Exchange(p)
  \/ LoginByOAuth_GetUserInfo(p)
  \/ LoginByOAuth_FindUser(p)
  \/ LoginByOAuth_NewUser(p)
  \/ LoginByOAuth_CreateUser(p)
  \/ Login_LastLogin(p)
  \/ Login_UpdateUser(p)
  \/ Login_CreateSession(p)
  \/ Login_SessionTTL(p)
  \/ Login_SessionExpiry(p)
  \/ LoginByPassword_Start(p, dom)
  \/ LoginByPassword_GetByEmail(p)
  \/ GetUserToken_Start(p, dom)
  \/ GetUserToken_GetSession(p)
  \/ GetUserToken_Refresh(p)
  \/ GetUserToken_SessionTTL(p)
  \/ GetUserToken_SessionExpiry(p)
  \/ GetUserToken_Issue(p)

\* one call at a time, with every kind of request
Next == Tick \/ Step(1, AllRequests)
Spec == Init /\ [][Next]_vars

\* the interceptor alone: BuildAuthInterceptor may or may not have got its
\* enforcer, and auth.internal_token may be unset
InitGate ==
  /\ now = 0
  /\ oauthState = [k \in StateKeys |-> NoState]
  /\ session = [k \in SessionIds |-> NoSession]
  /\ users = InitUsers
  /\ call = [p \in Procs |-> IdleCall]
  /\ consumed = {}
  /\ logins = {}
  /\ issued = {}
  /\ rnd = [states |-> 0, sessions |-> 0, users |-> 1, calls |-> 0]
  /\ cfg \in [internalToken : {"", "internal-secret"}, enforcer : BOOLEAN]
  /\ gate = NoGate
  /\ trip = NoTrip
  /\ conv = NoConv
  /\ qry = NoQry
NextGate == Tick \/ GateCall \/ GateReturn
SpecGate == InitGate /\ [][NextGate]_vars

\* the token functions and the role conversions alone
NextToken ==
  \/ Tick \/ TokenRoundTrip \/ TokenReturn \/ RoleConversion \/ RoleReturn
  \/ ExpirationQuery \/ ExpirationClock \/ ExpirationReturn
SpecToken == Init /\ [][NextToken]_vars

\* one step of process p in LoginByPassword or GetUserToken
SessionStep(p, dom) ==
  \/ LoginByPassword_Start(p, dom)
  \/ LoginByPassword_GetByEmail(p)
  \/ Login_LastLogin(p)
  \/ Login_UpdateUser(p)
  \/ Login_CreateSession(p)
  \/ Login_SessionTTL(p)
  \/ Login_SessionExpiry(p)
  \/ GetUserToken_Start(p, dom)
  \/ GetUserToken_GetSession(p)
  \/ GetUserToken_Refresh(p)
  \/ GetUserToken_SessionTTL(p)
  \/ GetUserToken_SessionExpiry(p)
  \/ GetUserToken_Issue(p)

\* password logins and token requests, one at a time, next to calls that
\* present the tokens to the interceptor, while session keys can get lost
\* at Redis
NextHeld ==
  \/ Tick \/ SessionStep(1, CompleteRequests) \/ GateCallHeld
  \/ SessionKeyLost
SpecHeld == Init /\ [][NextHeld]_vars

\* password logins and token requests of one client while another changes
\* and deletes users through UserService
NextUsers ==
  \/ Tick \/ SessionStep(1, CompleteRequests)
  \/ UpdateUser_GetByID(2) \/ UpdateUser_Update(2) \/ DeleteUser(2)
SpecUsers == Init /\ [][NextUsers]_vars

\* one step of process p in LoginByOAuth
LoginStep(p, dom) ==
  \/ LoginByOAuth_Start(p, dom)
  \/ LoginByOAuth_Validate(p)
  \/ LoginByOAuth_CheckState(p)
  \/ LoginByOAuth_DeleteExpired(p)
  \/ LoginByOAuth_DeleteState(p)
  \/ LoginByOAuth_Exchange(p)
  \/ LoginByOAuth_GetUserInfo(p)
  \/ LoginByOAuth_FindUser(p)
  \/ LoginByOAuth_NewUser(p)
  \/ LoginByOAuth_CreateUser(p)
  \/ Login_LastLogin(p)
  \/ Login_UpdateUser(p)
  \/ Login_CreateSession(p)
  \/ Login_SessionTTL(p)
  \/ Login_SessionExpiry(p)

\* one step of process p in GetUserToken
TokenStep(p, dom) ==
  \/ GetUserToken_Start(p, dom)
  \/ GetUserToken_GetSession(p)
  \/ GetUserToken_Refresh(p)
  \/ GetUserToken_SessionTTL(p)
  \/ GetUserToken_SessionExpiry(p)
  \/ GetUserToken_Issue(p)

\* calls in flight together, all with complete requests: one client makes
\* every call, another presents states to LoginByOAuth next to it
NextConc ==
  Tick \/ Step(1, CompleteRequests) \/ LoginStep(2, CompleteRequests)
SpecConc == Init /\ [][NextConc]_vars

\* calls in flight together, all with complete requests: one client logs
\* in by password and asks for tokens, another presents session ids to
\* GetUserToken next to it
NextRefresh ==
  Tick \/ SessionStep(1, CompleteRequests) \/ TokenStep(2, CompleteRequests)
SpecRefresh == Init /\ [][NextRefresh]_vars

\* the service comes up on a users table that holds, besides the
\* administrator, the account an earlier LoginByOAuth created
InitUpsert ==
  /\ now = 0
  /\ oauthState = [k \in StateKeys |-> NoState]
  /\ session = [k \in SessionIds |-> NoSession]
  /\ users = [InitUsers EXCEPT ![2] =
        [exists |-> TRUE, name |-> NameOf("gh-1"), role |-> "user",
         email |-> EmailOf("gh-1"), githubID |-> "gh-1", password |-> "",
         lastLoginAt |-> 0]]
  /\ call = [p \in Procs |-> IdleCall]
  /\ consumed = {}
  /\ logins = {}
  /\ issued = {}
  /\ rnd = [states |-> 0, sessions |-> 0, users |-> 2, calls |-> 0]
  /\ cfg = [internalToken |-> "internal-secret", enforcer |-> TRUE]
  /\ gate = NoGate
  /\ trip = NoTrip
  /\ conv = NoConv
  /\ qry = NoQry

\* the OAuth logins of one client next to the calls of UserService of
\* another
NextUpsert ==
  \/ Tick
  \/ GetOAuthCodeURL_Start(1, CompleteRequests) \/ GetOAuthCodeURL_Set(1)
  \/ LoginStep(1, CompleteRequests)
  \/ UserStep(2)
SpecUpsert == InitUpsert /\ [][NextUpsert]_vars

\* ================================================================ claims

\* stages of LoginByOAuth that lie behind the deletion of the state
BehindValidation ==
  {"exchange", "userInfo", "findUser", "newUser", "createUser", "lastLogin",
   "updateUser", "createSession", "sessionTTL", "sessionExpiry"}

\* C1: of two LoginByOAuth calls in flight with the same state, at most one
\* gets past state validation to the code exchange and session creation.
C1_OneCompletionPerState ==
  \A p \in Procs, q \in Procs :
     ( /\ p # q
       /\ call[p].op = "LoginByOAuth" /\ call[p].pc \in BehindValidation
       /\ call[q].op = "LoginByOAuth" /\ call[q].pc \in BehindValidation )
     => call[p].state # call[q].state

\* C2: a LoginByOAuth call that comes in after a login with the same state
\* has completed never gets past the state lookup; it ends with
\* InvalidArgument and has created no session.
C2_StateSingleUse ==
  \A p \in Procs :
     (call[p].op = "LoginByOAuth" /\ call[p].late) =>
        /\ call[p].pc \in {"validateState", "done"}
        /\ call[p].pc = "done" =>
              call[p].status = "InvalidArgument" /\ call[p].newID = 0

\* C2 witness: a call that presented a used state together with a code has
\* been turned away.
C2_Witness ==
  \E p \in Procs :
     /\ call[p].op = "LoginByOAuth" /\ call[p].late /\ call[p].code # ""
     /\ call[p].state \in consumed
     /\ call[p].pc = "done" /\ call[p].status = "InvalidArgument"

\* C3: the exp of every token GetUserToken returned is the deadline the
\* session key had in Redis when the call read it, and no token that is
\* still unexpired belongs to a session that is gone from Redis or ends
\* before the token does.
C3_TokenBoundToSession ==
  \A i \in issued :
     /\ i.token.exp = i.storeTTLAt
     /\ i.token.expiresAt = Time(i.storeTTLAt)
     /\ ~TokenExpired(i.token, now) =>
           /\ session[i.sessionID].exists
           /\ i.token.exp <= session[i.sessionID].ttlAt

\* process p takes the refresh step of GetUserToken
RefreshStep(p) ==
  /\ call[p].op = "GetUserToken" /\ call[p].pc = "refreshSession"
  /\ call'[p].pc = "sessionTTL"

\* the deadline of no session key moves backwards
ExpiryNeverDecreases ==
  \A k \in SessionIds :
     (session[k].exists /\ session'[k].exists) =>
        session'[k].ttlAt >= session[k].ttlAt

\* C4: every GetUserToken call on a live session sets the
\* session's deadline to now + the configured lifetime, and no deadline
\* ever decreases.
C4_EveryCallResets ==
  [][ /\ \A p \in Procs :
          (RefreshStep(p) /\ session[call[p].sessionID].exists) =>
             session'[call[p].sessionID].ttlAt = now + SessionExpirationDuration
      /\ ExpiryNeverDecreases ]_vars

\* C5: a LoginByOAuth call that got a state record from Redis and found it
\* past its expiresAt when it read the clock goes no further than the
\* clean-up, ends with InvalidArgument and has created no session.
C5_ExpiredStateRejected ==
  \A p \in Procs :
     (call[p].op = "LoginByOAuth" /\ call[p].expiredSeen) =>
        /\ call[p].pc \in {"deleteExpired", "done"}
        /\ call[p].pc = "done" =>
              call[p].status = "InvalidArgument" /\ call[p].newID = 0

\* C5 witness: such a call has returned.
C5_Witness ==
  \E p \in Procs :
     /\ call[p].op = "LoginByOAuth" /\ call[p].expiredSeen
     /\ call[p].pc = "done" /\ call[p].status = "InvalidArgument"

\* ------------------------------------------------------ the interceptor
\* the call in gate is for a method that is not public
GateProtected == gate.method \in ProtectedMethods

\* it came with metadata and an authorization value
GateHasHeader == gate.hasMD /\ Len(gate.authHeader) = 1

\* its x-token-type is "internal"
GateInternalType ==
  gate.hasMD /\ Len(gate.tokenType) = 1 /\ gate.tokenType[1] = "internal"

\* what follows the first "Bearer " of the authorization value is a JWT
\* signed with the configured secret, unexpired, with both claims
GateValidUserToken ==
  /\ GateHasHeader
  /\ LET h == gate.authHeader[1]
     IN /\ h.nBearer <= 1 /\ h.cred.kind = "jwt" /\ h.cred.key = JWTSecret
        /\ gate.at < h.cred.exp /\ h.cred.hasUserID /\ h.cred.hasUserRole

\* the role the policy is asked about for the token's user_role claim
GateRole ==
  IF gate.authHeader[1].cred.user_role = "USER_ROLE_ADMIN" THEN "admin"
  ELSE "user"

GateRejectedWith(code) ==
  gate.res.outcome = "Rejected" /\ gate.res.code = code /\ gate.res.handler = 0

\* C6: without a policy engine the interceptor admits no call to a
\* protected method that presents a valid user token.
C6_FailClosed ==
  (~cfg.enforcer /\ GateProtected /\ ~GateInternalType /\ GateValidUserToken)
     => (gate.res.outcome = "Rejected" /\ gate.res.handler = 0)

\* C7: for a protected method and a user-type credential, a token that
\* fails verification is rejected with Unauthenticated; a verified one is
\* admitted only if the policy permits (role, method), the user info then
\* being attached; a denial is PermissionDenied, an evaluation error is
\* Internal; the handler runs in no rejected case.
C7_UserTokenDecision ==
  (GateProtected /\ GateHasHeader /\ ~GateInternalType) =>
     /\ ~GateValidUserToken => GateRejectedWith("Unauthenticated")
     /\ GateValidUserToken =>
          /\ gate.res.outcome = "Admitted" =>
                /\ ~gate.enforceErr
                /\ gate.method \in Policy[GateRole]
                /\ gate.res.handler = 1
                /\ gate.res.userInfo.set
                /\ gate.res.userInfo.UserID = gate.authHeader[1].cred.user_id
          /\ (~gate.enforceErr /\ gate.method \notin Policy[GateRole]) =>
                GateRejectedWith("PermissionDenied")
          /\ gate.enforceErr => GateRejectedWith("Internal")
     /\ gate.res.outcome = "Rejected" => gate.res.handler = 0

\* a user-type credential that is no JWT, is signed with another secret, or
\* lacks the user_id or the user_role claim
GateBadUserCredential ==
  /\ GateHasHeader /\ ~GateInternalType
  /\ LET h == gate.authHeader[1]
     IN \/ h.nBearer > 1 \/ h.cred.kind # "jwt" \/ h.cred.key # JWTSecret
        \/ ~h.cred.hasUserID \/ ~h.cred.hasUserRole

\* C8: a call to a protected method without metadata, without an
\* authorization value, or with such a credential is rejected with
\* Unauthenticated and its handler is not invoked.
C8_BadCredentialRejected ==
  (GateProtected /\ (~gate.hasMD \/ Len(gate.authHeader) = 0
                      \/ GateBadUserCredential))
     => GateRejectedWith("Unauthenticated")

\* C8 witness: a token with a good signature and no user_role claim, sent
\* for a method every role may call, has been rejected.
C8_Witness ==
  /\ gate.method = "/UserService/GetUser" /\ GateBadUserCredential
  /\ gate.authHeader[1].cred.kind = "jwt"
  /\ gate.authHeader[1].cred.key = JWTSecret
  /\ ~gate.authHeader[1].cred.hasUserRole
  /\ GateRejectedWith("Unauthenticated")

\* C9: a call to GetOAuthCodeURL, LoginByOAuth, LoginByPassword or
\* GetUserToken is admitted and its handler invoked whatever comes with it,
\* and these four are the only methods admitted without any metadata.
C9_PublicAdmitted ==
  LET four == {"/AuthService/GetOAuthCodeURL", "/AuthService/LoginByOAuth",
               "/AuthService/LoginByPassword", "/AuthService/GetUserToken"}
  IN /\ gate.method \in four =>
          (gate.res.outcome = "Admitted" /\ gate.res.handler = 1
             /\ ~gate.res.policy)
     /\ (gate.method # "" /\ ~gate.hasMD /\ gate.res.outcome = "Admitted")
          => gate.method \in four

\* C9 witness: a public method called with a credential that is no token.
C9_Witness ==
  /\ gate.method = "/AuthService/GetUserToken"
  /\ GateHasHeader /\ gate.authHeader[1].cred.kind = "opaque"
  /\ gate.authHeader[1].cred.text = "garbage"
  /\ gate.res.outcome = "Admitted" /\ gate.res.handler = 1

\* the bearer value of the call equals the configured internal token
GateBearerIsInternalToken ==
  /\ GateHasHeader
  /\ LET h == gate.authHeader[1]
     IN h.nBearer <= 1 /\ h.cred.kind = "opaque"
        /\ h.cred.text = cfg.internalToken

\* C10: a call to a protected method with x-token-type "internal" is
\* admitted exactly if its bearer value equals the internal token; the
\* policy is then not consulted; otherwise it is rejected with
\* Unauthenticated.
C10_InternalToken ==
  (GateProtected /\ GateInternalType) =>
     /\ gate.res.outcome = "Admitted" <=> GateBearerIsInternalToken
     /\ gate.res.outcome = "Admitted" =>
           (~gate.res.policy /\ gate.res.handler = 1)
     /\ ~GateBearerIsInternalToken => GateRejectedWith("Unauthenticated")

\* C10 witness: an internal call to a method only administrators may call
\* has been admitted, the policy engine being there.
C10_Witness ==
  /\ gate.method = "/UserService/DeleteUser" /\ GateInternalType
  /\ cfg.enforcer /\ GateBearerIsInternalToken
  /\ gate.res.outcome = "Admitted" /\ ~gate.res.policy

\* the policy engine was asked about the call in gate and gave an answer
GatePolicyAnswered ==
  /\ cfg.enforcer /\ GateProtected /\ ~GateInternalType /\ GateValidUserToken
  /\ ~gate.enforceErr

\* C11: the policy grants admin each of CreateUser, GetUser, ListUsers,
\* UpdateUser, DeleteUser and GetCurrentUser; it grants user GetUser and
\* GetCurrentUser and denies user CreateUser, UpdateUser, DeleteUser and
\* ListUsers.
C11_PolicyTable ==
  GatePolicyAnswered =>
     LET granted ==
           \/ /\ GateRole = "admin"
              /\ gate.method \in
                    {"/UserService/CreateUser", "/UserService/GetUser",
                     "/UserService/ListUsers", "/UserService/UpdateUser",
                     "/UserService/DeleteUser", "/UserService/GetCurrentUser"}
           \/ /\ GateRole = "user"
              /\ gate.method \in
                    {"/UserService/GetUser", "/UserService/GetCurrentUser"}
     IN /\ gate.res.policy
        /\ granted => gate.res.outcome = "Admitted"
        /\ ~granted => GateRejectedWith("PermissionDenied")

\* C11 witness: the policy has denied ListUsers to a token of role user.
C11_Witness ==
  /\ GatePolicyAnswered /\ gate.method = "/UserService/ListUsers"
  /\ gate.authHeader[1].cred.user_role = "USER_ROLE_USER"
  /\ GateRejectedWith("PermissionDenied")

\* ------------------------------------------------------ the login flows
\* process p has returned from a login handler
LoginReturned(p) ==
  call[p].op \in {"LoginByOAuth", "LoginByPassword"} /\ call[p].pc = "done"

\* C12: a LoginByOAuth or LoginByPassword call that returned an error has
\* written no session record; only a login that returned success has.
C12_NoPartialCommit ==
  \A p \in Procs :
     (LoginReturned(p) /\ call[p].status # "OK") => call[p].newID = 0

\* the delete of the state that process p's LoginByOAuth had validated failed
UsedStateDeleteFailed(p) ==
  /\ call[p].op = "LoginByOAuth" /\ call[p].verdict = "valid"
  /\ "state.Del" \in call[p].failures

\* C13 as claimed: a LoginByOAuth call whose delete of the validated state
\* failed, and which met no other failure, returns a session.
C13_DeleteFailureOnlyLogged ==
  \A p \in Procs :
     ( /\ UsedStateDeleteFailed(p) /\ call[p].failures = {"state.Del"}
       /\ ~call[p].gone /\ call[p].pc = "done" )
     => (call[p].status = "OK" /\ call[p].newID # 0)

\* C13 as amended: a LoginByOAuth call whose delete of the validated state
\* failed goes no further: it has returned Internal, without asking the
\* provider and without creating a session.
C13_DeleteFailureIsInternal ==
  \A p \in Procs :
     UsedStateDeleteFailed(p) =>
        /\ call[p].pc = "done" /\ call[p].status = "Internal"
        /\ call[p].newID = 0
        /\ call[p].failures = {"state.Del"}

\* C13 witness: such a call has returned, and the state it presented is
\* still in Redis.
C13_Witness ==
  \E p \in Procs :
     /\ UsedStateDeleteFailed(p) /\ call[p].pc = "done"
     /\ call[p].status = "Internal" /\ oauthState[call[p].state].exists

\* the calls to the backing store, and the signing of a token
StoreCalls ==
  {"state.Get", "state.Set", "state.Del", "session.Get", "session.Set",
   "session.Expire", "session.TTL", "sign"}

\* C14: a handler in which a backing-store call or the signing of the token
\* failed returns Internal.
C14_StoreFailureIsInternal ==
  \A p \in Procs :
     (call[p].pc = "done" /\ call[p].failures \cap StoreCalls # {})
        => call[p].status = "Internal"

\* C15: a GetUserToken call with an empty session id returns
\* InvalidArgument; one to which Redis reported the session key missing, at
\* the lookup or at the TTL read after it, and none of whose store calls
\* failed, returns Unauthenticated; neither returns a token.
C15_SessionGoneUnauthenticated ==
  \A p \in Procs :
     (call[p].op = "GetUserToken" /\ call[p].pc = "done") =>
        /\ call[p].sessionID = 0 =>
              (call[p].status = "InvalidArgument" /\ call[p].token = NoToken)
        /\ (call[p].gone /\ call[p].failures = {}) =>
              (call[p].status = "Unauthenticated" /\ call[p].token = NoToken)

\* process p's LoginByOAuth, having got the record of its state from Redis,
\* reads the clock, and the record is not past its expiresAt
ReadsLiveState(p) ==
  /\ call[p].op = "LoginByOAuth" /\ call[p].pc = "checkState"
  /\ call'[p].pc # "checkState"
  /\ call[p].stateData.exists
  /\ ~(now > call[p].stateData.expiresAt)

\* C16: a LoginByOAuth call that read a live state record is rejected with
\* InvalidArgument at validation exactly when the stored and the presented
\* user agent are both non-empty and differ, or the stored and the presented
\* IP address are both non-empty and differ.
C16_SoftClientCheck ==
  [][ \A p \in Procs :
        ReadsLiveState(p) =>
           LET sd == call[p].stateData
               uaDiffers == /\ sd.userAgent # "" /\ call[p].userAgent # ""
                            /\ sd.userAgent # call[p].userAgent
               ipDiffers == /\ sd.ipAddress # "" /\ call[p].ipAddress # ""
                            /\ sd.ipAddress # call[p].ipAddress
           IN IF uaDiffers \/ ipDiffers
              THEN /\ call'[p].pc = "done"
                   /\ call'[p].status = "InvalidArgument"
              ELSE call'[p].pc = "deleteState" ]_vars

\* C16 witness: a call has been turned away for its IP address, the record
\* having been stored by a client with another address.
C16_Witness ==
  \E p \in Procs :
     /\ call[p].op = "LoginByOAuth" /\ call[p].pc = "done"
     /\ call[p].verdict = "ip-mismatch" /\ call[p].status = "InvalidArgument"
     /\ oauthState[call[p].state].exists
     /\ oauthState[call[p].state].ipAddress # ""

\* the status codes LoginByPassword has for a request it turns down
PasswordRejections ==
  {"InvalidArgument", "NotFound", "FailedPrecondition", "Unauthenticated"}

\* process p's LoginByPassword takes a step that no failure of the database
\* or the store has touched
LoginByPasswordStep(p) ==
  /\ call'[p] # call[p] /\ call'[p].op = "LoginByPassword"
  /\ call'[p].failures = {}

\* C17: LoginByPassword returns InvalidArgument for an empty email or
\* password, NotFound when no account has the email, FailedPrecondition
\* when the account has no password, Unauthenticated when the password
\* does not match; up to and including such a return the call creates no
\* session and updates no last-login time.
C17_PasswordLoginErrors ==
  [][ \A p \in Procs :
        LoginByPasswordStep(p) =>
           LET c == call'[p]
               rows == {u \in UserIds :
                          users[u].exists /\ users[u].email = c.email}
               turnedDown == c.pc = "done" /\ c.status \in PasswordRejections
           IN /\ c.pc = "done" =>
                   IF c.email = "" \/ c.password = ""
                   THEN c.status = "InvalidArgument"
                   ELSE IF rows = {} THEN c.status = "NotFound"
                   ELSE IF \E u \in rows : users[u].password = ""
                   THEN c.status = "FailedPrecondition"
                   ELSE IF \E u \in rows : users[u].password # c.password
                   THEN c.status = "Unauthenticated"
                   ELSE c.status \in {"OK", "Internal"}
              /\ (turnedDown \/ c.pc = "getByEmail") =>
                   /\ c.newID = 0
                   /\ call[p].pc \in {"idle", "done", "getByEmail"}
                   /\ session' = session /\ users' = users
                   /\ rnd'.sessions = rnd.sessions ]_vars

\* C17 witness: a password login to an account that LoginByOAuth created
\* has been refused with FailedPrecondition.
C17_Witness ==
  \E p \in Procs, u \in UserIds :
     /\ call[p].op = "LoginByPassword" /\ call[p].pc = "done"
     /\ call[p].status = "FailedPrecondition" /\ call[p].password # ""
     /\ users[u].exists /\ users[u].email = call[p].email
     /\ users[u].githubID # "" /\ users[u].password = ""

\* process p's GetOAuthCodeURL takes a step
GetOAuthCodeURLStep(p) ==
  call'[p] # call[p] /\ call'[p].op = "GetOAuthCodeURL"

\* the state keys whose record the step writes or removes
StateKeysTouched == {k \in StateKeys : oauthState'[k] # oauthState[k]}

\* C18: GetOAuthCodeURL with an empty or unknown provider returns
\* InvalidArgument and leaves the state store as it was; with a known
\* provider, a call that returns OK has stored exactly one record, under a
\* key that was free, and returns that key as state and inside the URL.
C18_CodeURL ==
  [][ \A p \in Procs :
        GetOAuthCodeURLStep(p) =>
           LET c == call'[p]
           IN IF c.provider # "github"
              THEN /\ c.pc = "done" /\ c.status = "InvalidArgument"
                   /\ c.newID = 0 /\ c.url = NoURL
                   /\ oauthState' = oauthState
              ELSE /\ c.pc = "setState" => oauthState' = oauthState
                   /\ c.pc = "done" => c.status \in {"OK", "Internal"}
                   /\ (c.pc = "done" /\ c.status = "Internal") =>
                         (c.newID = 0 /\ oauthState' = oauthState)
                   /\ (c.pc = "done" /\ c.status = "OK") =>
                         /\ StateKeysTouched = {c.newID}
                         /\ ~oauthState[c.newID].exists
                         /\ oauthState'[c.newID].exists
                         /\ oauthState'[c.newID].provider = "github"
                         /\ c.url.state = c.newID ]_vars

\* C18 witness: a call for github has returned the key of the record it
\* stored, and a call for another provider has been refused.
C18_Witness ==
  \E p \in Procs :
     /\ call[p].op = "GetOAuthCodeURL" /\ call[p].pc = "done"
     /\ call[p].provider = "gitlab" /\ call[p].status = "InvalidArgument"
     /\ \E k \in StateKeys : oauthState[k].exists

\* process p's LoginByOAuth, whose request lacks the code or the state,
\* takes a step
IncompleteLoginStep(p) ==
  /\ call'[p] # call[p] /\ call'[p].op = "LoginByOAuth"
  /\ (call'[p].code = "" \/ call'[p].state = 0)

\* C19: LoginByOAuth with an empty code or an empty state returns
\* InvalidArgument in its first step, before any call to the store: the
\* state store and the session store stay as they were, and a live state
\* presented with an empty code is still there.
C19_MissingFieldsTouchNothing ==
  [][ \A p \in Procs :
        IncompleteLoginStep(p) =>
           /\ call[p].pc \in {"idle", "done"}
           /\ call'[p].pc = "done" /\ call'[p].status = "InvalidArgument"
           /\ call'[p].failures = {} /\ call'[p].verdict = ""
           /\ call'[p].newID = 0
           /\ oauthState' = oauthState /\ session' = session
           /\ consumed' = consumed ]_vars

\* C19 witness: a call that presented a live state and no code has been
\* refused, and the state is still in Redis.
C19_Witness ==
  \E p \in Procs :
     /\ call[p].op = "LoginByOAuth" /\ call[p].pc = "done"
     /\ call[p].code = "" /\ call[p].state # 0
     /\ call[p].status = "InvalidArgument"
     /\ oauthState[call[p].state].exists

\* process p's GetUserToken has returned a token for the session that the
\* LoginByOAuth recorded in l returned
TokenAfterOAuthLogin(p, l) ==
  /\ call[p].op = "GetUserToken" /\ call[p].pc = "done"
  /\ call[p].status = "OK"
  /\ l.op = "LoginByOAuth" /\ l.sessionID = call[p].sessionID

\* C22: the token GetUserToken returns for the session of a
\* successful LoginByOAuth has an exp equal to the sessionExpiresAt that
\* login returned.
C22_ExpEqualsLoginExpiry ==
  \A p \in Procs, l \in logins :
     TokenAfterOAuthLogin(p, l) => call[p].token.exp = l.expiresAt

\* process p's login takes the step that writes the session
CreateSessionStep(p) ==
  /\ call[p].op \in {"LoginByOAuth", "LoginByPassword"}
  /\ call[p].pc = "createSession" /\ call'[p].pc # "createSession"

\* process p's login returns a session
LoginSucceeds(p) ==
  /\ call[p].op \in {"LoginByOAuth", "LoginByPassword"}
  /\ call[p].pc = "sessionExpiry"
  /\ call'[p].pc = "done" /\ call'[p].status = "OK"

\* C23: a login writes its session under a fresh id, mapped to the id of
\* the identity that logs in, with the full session lifetime as TTL, or
\* returns Internal when the write fails; a login that succeeds returns the
\* id of that record and, as sessionExpiresAt, the record's deadline in the
\* store.
C23_SessionCreated ==
  [][ \A p \in Procs :
        /\ CreateSessionStep(p) =>
              IF call'[p].pc = "done"
              THEN /\ call'[p].status = "Internal" /\ session' = session
                   /\ "session.Set" \in call'[p].failures
              ELSE LET id == call'[p].newID
                   IN /\ ~session[id].exists
                      /\ session'[id].exists
                      /\ session'[id].userID = call[p].uid
                      /\ session'[id].ttlAt = now + SessionExpirationDuration
                      /\ \A k \in SessionIds \ {id} : session'[k] = session[k]
        /\ LoginSucceeds(p) =>
              LET id == call'[p].newID
                  who == users[session[id].userID]
              IN /\ session[id].exists /\ session' = session
                 /\ session[id].userID = call[p].uid
                 /\ who.exists
                 /\ call[p].op = "LoginByPassword" => who.email = call[p].email
                 /\ call[p].op = "LoginByOAuth" => who.githubID = call[p].gid
                 /\ call'[p].expiresAt = session[id].ttlAt ]_vars

\* C24: a session key that is in the store stays there, mapped to the same
\* subject, until its deadline is reached; the only change a step makes
\* to it is to put its deadline at now + the session lifetime.
C24_SessionOnlyExpires ==
  [][ \A k \in SessionIds :
        session[k].exists =>
           IF session'[k].exists
           THEN /\ session'[k].userID = session[k].userID
                /\ \/ session'[k].ttlAt = session[k].ttlAt
                   \/ session'[k].ttlAt = now + SessionExpirationDuration
           ELSE now' = now + 1 /\ session[k].ttlAt <= now' ]_vars

\* C24 witness: the session a login returned is gone from the store, its
\* deadline having passed.
C24_Witness ==
  \E p \in Procs :
     /\ call[p].op \in {"LoginByOAuth", "LoginByPassword"}
     /\ call[p].pc = "done" /\ call[p].status = "OK"
     /\ ~session[call[p].newID].exists /\ call[p].expiresAt <= now

\* process p's GetUserToken on session k has returned; no call it made
\* failed and Redis never reported the key missing to it
CleanTokenCall(p, k) ==
  /\ call[p].op = "GetUserToken" /\ call[p].pc = "done"
  /\ call[p].sessionID = k
  /\ call[p].failures = {} /\ ~call[p].gone

Later(a, b) == IF a >= b THEN a ELSE b

\* C25: when GetUserToken calls of two processes on the same session have
\* returned, however their steps interleaved, both have succeeded with a
\* token for the subject of the session, and a session still in the store
\* maps to that subject and has as deadline the time of the later of the
\* two refreshes plus the session lifetime.
C25_ConcurrentRefresh ==
  \A p \in Procs, q \in Procs, k \in SessionIds :
     (p # q /\ CleanTokenCall(p, k) /\ CleanTokenCall(q, k)) =>
        /\ call[p].status = "OK" /\ call[q].status = "OK"
        /\ call[p].token.user_id = call[q].token.user_id
        /\ call[p].refreshedAt # -1 /\ call[q].refreshedAt # -1
        /\ session[k].exists =>
              /\ session[k].userID = call[p].token.user_id
              /\ session[k].ttlAt =
                    Later(call[p].refreshedAt, call[q].refreshedAt)
                      + SessionExpirationDuration

\* C25 witness: of two such calls, one refreshed the session first and
\* read its TTL only after the refresh of the other, so that its token
\* runs to the deadline the other call set.
C25_Witness ==
  \E p \in Procs, q \in Procs, k \in SessionIds :
     /\ p # q /\ CleanTokenCall(p, k) /\ CleanTokenCall(q, k)
     /\ call[p].status = "OK" /\ call[q].status = "OK"
     /\ call[p].refreshedAt < call[q].refreshedAt
     /\ call[p].token.exp = call[q].refreshedAt + SessionExpirationDuration
     /\ session[k].exists

\* the rows of the users table that a step creates, and those it changes
CreatedUsers == {u \in UserIds : ~users[u].exists /\ users'[u].exists}
ChangedUsers == {u \in UserIds : users[u].exists /\ users'[u] # users[u]}

\* C26: a step of LoginByOAuth that writes the users table either creates
\* one user, with role user and the GitHub id the provider reported, when
\* no user has that GitHub id, or changes the last-login time, to the time
\* the call read before the save, and nothing else of the one user that
\* has it, whatever UserService does to the table meanwhile; the session
\* the call then creates holds the id of that user.
C26_OAuthUpsert ==
  [][ \A p \in Procs :
        (call[p].op = "LoginByOAuth" /\ call'[p] # call[p]) =>
          /\ users' # users =>
                \/ /\ GetByGithubID(call[p].gid) = {}
                   /\ ChangedUsers = {}
                   /\ \E u \in UserIds :
                        /\ CreatedUsers = {u}
                        /\ users'[u].role = "user"
                        /\ users'[u].githubID = call[p].gid
                        /\ users'[u].email = EmailOf(call[p].gid)
                        /\ call'[p].uid = u /\ call'[p].isNewUser
                \/ /\ CreatedUsers = {}
                   /\ \E u \in UserIds :
                        /\ GetByGithubID(call[p].gid) = {u}
                        /\ ChangedUsers = {u}
                        /\ users'[u] = [users[u] EXCEPT !.lastLoginAt =
                                            call[p].row.lastLoginAt]
                        /\ call[p].row.lastLoginAt <= now
                        /\ call'[p].uid = u /\ ~call'[p].isNewUser
          /\ session' # session =>
                \E k \in SessionIds :
                   /\ ~session[k].exists /\ session'[k].exists
                   /\ session'[k].userID = call[p].uid
                   /\ call[p].uid \in UserIds ]_vars

\* C27: whenever a state record is written, a GetOAuthCodeURL call writes
\* it and returns its key as the state of the URL; the record expires the
\* OAuth-state lifetime after its creation time, its key has that lifetime
\* as TTL from the moment of the write, and it holds the provider, the
\* effective redirect URL, the user agent and the IP address of the call.
C27_StateRecord ==
  [][ \A k \in DOMAIN oauthState :
        (oauthState'[k].exists /\ oauthState'[k] # oauthState[k]) =>
           \E p \in Procs :
              /\ call[p].op = "GetOAuthCodeURL" /\ call[p].pc = "setState"
              /\ call'[p].pc = "done" /\ call'[p].status = "OK"
              /\ call'[p].url.state = k
              /\ ~oauthState[k].exists
              /\ oauthState'[k].expiresAt =
                    oauthState'[k].createdAt + OAuthStateExpirationDuration
              /\ oauthState'[k].createdAt <= now
              /\ oauthState'[k].ttlAt = now + OAuthStateExpirationDuration
              /\ oauthState'[k].provider = call[p].provider
              /\ oauthState'[k].redirectURL =
                    EffectiveRedirectURL(call[p].redirectURL)
              /\ oauthState'[k].userAgent = call[p].userAgent
              /\ oauthState'[k].ipAddress = call[p].ipAddress ]_vars

\* C27 witness: a stored record of a call that named its own redirect URL
\* and sent a user agent and an address, written one tick after it was
\* built, so that the key outlives the record's expiresAt.
C27_Witness ==
  \E p \in Procs, k \in DOMAIN oauthState :
     /\ call[p].op = "GetOAuthCodeURL" /\ call[p].status = "OK"
     /\ call[p].url.state = k
     /\ oauthState[k].exists
     /\ oauthState[k].redirectURL = "https://custom/cb"
     /\ oauthState[k].userAgent = "ua-a"
     /\ oauthState[k].ipAddress = "10.0.0.1"
     /\ oauthState[k].expiresAt =
           oauthState[k].createdAt + OAuthStateExpirationDuration
     /\ oauthState[k].ttlAt = oauthState[k].expiresAt + 1

\* the codes the interceptor itself answers with
GateCodes == {"Unauthenticated", "PermissionDenied", "Internal"}

\* C28: a call entering the gate has its terminal state in that one step,
\* the interceptor having no loop and waiting for nothing: Admitted with
\* the handler invoked once, or Rejected with the handler not invoked and
\* one of Unauthenticated, PermissionDenied and Internal as code; the state
\* does not change until the response is sent.
C28_OneTerminalState ==
  [][ /\ (gate.method = "" /\ gate'.method # "") =>
           \/ /\ gate'.res.outcome = "Admitted"
              /\ gate'.res.handler = 1 /\ gate'.res.code = ""
           \/ /\ gate'.res.outcome = "Rejected"
              /\ gate'.res.handler = 0 /\ gate'.res.code \in GateCodes
      /\ (gate.method # "" /\ gate'.method # "") => gate' = gate ]_vars

\* C28 witness: a call with a valid user token whose policy check failed
\* is Rejected with Internal, the handler not invoked.
C28_Witness ==
  /\ gate.method \in ProtectedMethods /\ gate.enforceErr
  /\ gate.res.outcome = "Rejected" /\ gate.res.code = "Internal"
  /\ gate.res.handler = 0 /\ gate.res.policy

\* a call on a protected method that carries an authorization value
MarkedCall ==
  /\ gate.method \in ProtectedMethods /\ gate.hasMD
  /\ Len(gate.authHeader) > 0

\* the answer of the gate had the call carried the marker "user"
AsUserCredential ==
  AuthInterceptor(gate.method, gate.hasMD, <<"user">>, gate.authHeader, cfg,
                  gate.enforceErr, gate.at)

\* C30: a protected call without x-token-type, or with any value of it but
\* "internal", gets the answer it would get with the marker "user", its
\* authorization value being validated as a user token; a call is admitted
\* on the strength of the internal token, as a call without user info and
\* without policy check, only under the marker "internal", and under that
\* marker nothing but the comparison with the internal token decides.
C30_MarkerSelectsBranch ==
  MarkedCall =>
     /\ gate.tokenType # <<"internal">> =>
           /\ gate.res = AsUserCredential
           /\ gate.res.outcome = "Admitted" =>
                 /\ gate.res.userInfo.set
                 /\ ValidateUserToken(TrimPrefix(gate.authHeader[1]),
                                      JWTSecret, gate.at)
     /\ gate.tokenType = <<"internal">> =>
           /\ ~gate.res.userInfo.set /\ ~gate.res.policy
           /\ gate.res.outcome = "Admitted" <=>
                 EqualsString(TrimPrefix(gate.authHeader[1]), cfg.internalToken)

\* C30 witness: the internal token presented under the marker "Internal",
\* which is not the exact marker, is rejected as an invalid user token.
C30_Witness ==
  /\ MarkedCall /\ gate.tokenType = <<"Internal">>
  /\ cfg.internalToken # ""
  /\ EqualsString(TrimPrefix(gate.authHeader[1]), cfg.internalToken)
  /\ gate.res = Rejected("Unauthenticated")

\* C29: asked for the expiration time of a session key,
\* getSessionExpirationTime answers Internal when rdb.TTL fails,
\* Unauthenticated when the key is absent, Internal when the key has no
\* TTL, and otherwise, without error, an absolute time: what the clock
\* shows when the function reads it plus the remaining TTL that Redis
\* answered, which is the time the key had left, to the nearest second.
C29_ExpirationQuery ==
  qry.done =>
     IF ~qry.redisOK THEN qry.res.err = "Internal"
     ELSE IF ~qry.key.exists THEN qry.res.err = "Unauthenticated"
     ELSE IF qry.key.ttlAt < 0 THEN qry.res.err = "Internal"
     ELSE /\ qry.res.err = ""
          /\ qry.key.ttlAt - qry.at \in 1..SessionExpirationDuration
          /\ qry.ttl \in 0..SessionExpirationDuration
          /\ qry.ttl - (qry.key.ttlAt - qry.at) \in {-1, 0, 1}
          /\ qry.res.at = qry.clock + qry.ttl

\* C29 witness: the query met a key with a deadline ahead, and the clock
\* moved on between the answer of rdb.TTL and the reading of the clock.
C29_Witness ==
  /\ qry.done /\ qry.redisOK
  /\ qry.key.exists /\ qry.key.ttlAt > qry.at
  /\ qry.clock > qry.at
  /\ qry.res.err = "" /\ qry.res.at > qry.key.ttlAt

\* the verdicts of validateState on the client of the call
ClientMismatches == {"ua-mismatch", "ip-mismatch"}

\* C31: the step in which LoginByOAuth is rejected for its user agent or
\* IP address returns InvalidArgument and leaves the state record, and the
\* rest of the store and the users, as they were, the state not counting
\* as consumed; and a call whose rdb.Get succeeds on a record that is there
\* gets that record, and if the record is not past expiresAt when the call
\* then reads the clock and not in conflict with the client of the call,
\* the call goes on to delete the state, whatever calls were rejected
\* before it.
C31_MismatchKeepsState ==
  [][ \A p \in Procs :
        /\ (call[p].op = "LoginByOAuth" /\ call[p].pc = "validateState"
              /\ call'[p] # call[p]
              /\ oauthState[call[p].state].exists
              /\ call'[p].failures = call[p].failures) =>
               /\ call'[p].pc = "checkState"
               /\ call'[p].stateData = oauthState[call[p].state]
               /\ oauthState' = oauthState
        /\ (call[p].op = "LoginByOAuth" /\ call[p].pc = "checkState"
              /\ call'[p] # call[p]) =>
             LET sd == call[p].stateData
             IN /\ call'[p].verdict \in ClientMismatches =>
                     /\ call'[p].pc = "done"
                     /\ call'[p].status = "InvalidArgument"
                     /\ oauthState' = oauthState
                     /\ session' = session /\ users' = users
                     /\ consumed' = consumed
                /\ ( /\ ~(now > sd.expiresAt)
                     /\ \/ sd.userAgent = "" \/ call[p].userAgent = ""
                        \/ sd.userAgent = call[p].userAgent
                     /\ \/ sd.ipAddress = "" \/ call[p].ipAddress = ""
                        \/ sd.ipAddress = call[p].ipAddress ) =>
                     /\ call'[p].pc = "deleteState"
                     /\ call'[p].stateData = sd ]_vars

\* C31 witness: a call has been rejected for its IP address, and the record
\* it presented is in the store, not past its expiresAt and not consumed.
C31_Witness ==
  \E p \in Procs :
     /\ call[p].op = "LoginByOAuth" /\ call[p].pc = "done"
     /\ call[p].verdict = "ip-mismatch"
     /\ call[p].status = "InvalidArgument"
     /\ oauthState[call[p].state].exists
     /\ ~(now > oauthState[call[p].state].expiresAt)
     /\ call[p].state \notin consumed

\* the outside calls of LoginByOAuth that come after "Delete used state"
LaterFailures == {"provider", "db", "session.Set", "session.TTL"}

\* process p runs LoginByOAuth and is at, or has failed at, a stage behind
\* the deletion of the state
PastDeletion(c) ==
  /\ c.op = "LoginByOAuth"
  /\ \/ c.pc \in BehindValidation
     \/ c.pc = "done" /\ c.failures \cap LaterFailures # {}

\* C32: a LoginByOAuth at the code exchange or behind it, and one that has
\* failed there, finds its state deleted; a key comes into the store only
\* by the one write of the GetOAuthCodeURL call that drew it, never by a
\* step of LoginByOAuth; and a LoginByOAuth that asks for a state the store
\* does not hold returns InvalidArgument having written nothing.
C32_StateStaysConsumed ==
  [][ /\ \A p \in Procs :
           PastDeletion(call'[p]) => ~oauthState'[call'[p].state].exists
      /\ \A k \in StateKeys :
           (~oauthState[k].exists /\ oauthState'[k].exists) =>
              \E q \in Procs :
                 /\ call[q].op = "GetOAuthCodeURL" /\ call[q].pc = "setState"
                 /\ call[q].newID = k /\ call'[q].pc = "done"
      /\ \A p \in Procs :
           ( /\ call[p].op = "LoginByOAuth" /\ call[p].pc = "validateState"
             /\ call'[p] # call[p]
             /\ ~oauthState[call[p].state].exists ) =>
               /\ call'[p].pc = "done"
               /\ call'[p].status = "InvalidArgument"
               /\ oauthState' = oauthState /\ session' = session
               /\ users' = users ]_vars

\* C32 witness: one LoginByOAuth has failed at the provider after deleting
\* its state, and another, presenting the same state, was turned away with
\* InvalidArgument without having read a record.
C32_Witness ==
  \E p \in Procs, q \in Procs :
     /\ p # q
     /\ call[p].op = "LoginByOAuth" /\ call[p].pc = "done"
     /\ call[p].status = "Internal" /\ call[p].failures = {"provider"}
     /\ call[q].op = "LoginByOAuth" /\ call[q].pc = "done"
     /\ call[q].state = call[p].state
     /\ call[q].status = "InvalidArgument"
     /\ call[q].failures = {} /\ call[q].verdict = ""
     /\ ~oauthState[call[p].state].exists

\* C33: a call through the interceptor writes neither store nor the users,
\* and for a token that GetUserToken issued it is admitted exactly when the
\* time of the call is before the exp of the token and the policy gives
\* the method to the role of the token, whatever the stores hold.
C33_GateIgnoresStores ==
  [][ gate' # gate =>
        LET c == gate'.authHeader[1].cred
        IN /\ session' = session /\ oauthState' = oauthState
           /\ users' = users /\ issued' = issued
           /\ gate'.res.outcome = "Admitted" <=>
                 /\ now < c.exp
                 /\ gate'.method \in Policy[convertRoleToString(c.user_role)]
           /\ gate'.res.outcome = "Admitted" =>
                 gate'.res.userInfo.UserID = c.user_id ]_vars

\* C33 witness: a call with an issued token has just been admitted, and
\* the store holds no session at all.
C33_Witness ==
  /\ gate.method \in ProtectedMethods
  /\ gate.res.outcome = "Admitted" /\ gate.at = now
  /\ issued # {}
  /\ \A k \in SessionIds : ~session[k].exists

\* C34: a GetUserToken whose rdb.Expire fails goes on to read the TTL with
\* the session untouched; when nothing else of the call fails and the key
\* is there when its TTL is read, the call returns OK with a token whose
\* exp is the deadline the key had and still has, no refresh being noted.
C34_RefreshFailureTolerated ==
  [][ \A p \in Procs :
        (call[p].op = "GetUserToken" /\ call'[p] # call[p]) =>
          /\ ( /\ call[p].pc = "refreshSession"
               /\ "session.Expire" \in call'[p].failures ) =>
                 /\ call'[p].pc = "sessionTTL"
                 /\ session' = session
          /\ ( /\ call'[p].pc = "done"
               /\ call'[p].failures = {"session.Expire"}
               /\ ~call'[p].gone ) =>
                 /\ call'[p].status = "OK"
                 /\ call'[p].refreshedAt = -1
                 /\ call'[p].token.exp = call'[p].readTTLAt
                 /\ session' = session
                 /\ session[call[p].sessionID].exists =>
                       session[call[p].sessionID].ttlAt = call'[p].token.exp
        ]_vars

\* C35: a call admitted under the marker "internal" has no user info in
\* its context, and GetCurrentUser run with that context returns an error
\* and no user; a context has user info only when the call came with a
\* valid user token under another marker or none.
C35_InternalHasNoSubject ==
  (gate.method \in ProtectedMethods /\ gate.res.outcome = "Admitted") =>
     /\ gate.tokenType = <<"internal">> =>
           /\ ~gate.res.userInfo.set
           /\ \A dbOK \in BOOLEAN :
                 /\ GetCurrentUser(gate.res.userInfo, dbOK).err
                 /\ GetCurrentUser(gate.res.userInfo, dbOK).user = 0
     /\ gate.res.userInfo.set =>
           /\ gate.tokenType # <<"internal">>
           /\ ValidateUserToken(TrimPrefix(gate.authHeader[1]), JWTSecret,
                                gate.at)
           /\ gate.res.userInfo.UserID =
                 TrimPrefix(gate.authHeader[1]).cred.user_id

\* C35 witness: GetCurrentUser was admitted with the internal token, the
\* handler was invoked and finds no user info.
C35_Witness ==
  /\ gate.method = "/UserService/GetCurrentUser"
  /\ gate.tokenType = <<"internal">>
  /\ cfg.internalToken # ""
  /\ gate.res.outcome = "Admitted" /\ gate.res.handler = 1
  /\ GetCurrentUser(gate.res.userInfo, TRUE).err

\* C36: the step that ends GetUserToken behind the TTL read either returns
\* OK with a token for the user of the session carrying the role the users
\* table has for it at that step, or returns Internal without a token,
\* nothing being added to the issued tokens and the session keeping the
\* deadline the call's refresh gave it; it is Internal when the user
\* lookup fails.
C36_RoleAtIssue ==
  [][ \A p \in Procs :
        ( /\ call[p].op = "GetUserToken" /\ call[p].pc = "getUser"
          /\ call'[p] # call[p] ) =>
          /\ call'[p].pc = "done" /\ session' = session
          /\ call'[p].status \in {"OK", "Internal"}
          /\ call'[p].status = "OK" =>
                /\ call'[p].token.exists
                /\ call'[p].token.user_id = call[p].uid
                /\ call'[p].token.user_role = ToPb(users[call[p].uid].role)
                /\ issued' # {} /\ call'[p].failures \cap {"db", "sign"} = {}
          /\ call'[p].status = "Internal" =>
                /\ call'[p].token = NoToken /\ issued' = issued
                /\ call'[p].failures \cap {"db", "sign"} # {}
          /\ "db" \in call'[p].failures => call'[p].status = "Internal"
        ]_vars

\* C36 witness: GetUserToken has returned a token whose role is not the
\* role the user had when the login created the session.
C36_Witness ==
  \E p \in Procs, l \in logins :
     /\ call[p].op = "GetUserToken" /\ call[p].pc = "done"
     /\ call[p].status = "OK" /\ call[p].sessionID = l.sessionID
     /\ call[p].token.user_id = l.uid
     /\ call[p].token.user_role # ToPb(l.role)
     /\ call[p].token.user_role = ToPb(users[l.uid].role)

\* C37: the createSession step of a login either fails and leaves the
\* session store as it was, or writes one key, which no session had before,
\* with the user of the login and the full lifetime, every other key
\* keeping its user and its deadline.
C37_OnlyTheNewKey ==
  [][ \A p \in Procs :
        ( /\ call[p].op \in {"LoginByOAuth", "LoginByPassword"}
          /\ call[p].pc = "createSession" /\ call'[p] # call[p] ) =>
          IF call'[p].pc = "sessionTTL"
          THEN \E k \in SessionIds :
                 /\ k > rnd.sessions /\ ~session[k].exists
                 /\ call'[p].newID = k
                 /\ session' = [session EXCEPT ![k] =
                       [exists |-> TRUE, userID |-> call[p].uid,
                        ttlAt |-> now + SessionExpirationDuration]]
          ELSE session' = session /\ call'[p].status = "Internal" ]_vars

\* C37 witness: two sessions of one user are in the store, created at
\* different times, each with the deadline its own login gave it.
C37_Witness ==
  \E j \in SessionIds, k \in SessionIds :
     /\ j # k /\ session[j].exists /\ session[k].exists
     /\ session[j].userID = session[k].userID
     /\ session[j].ttlAt < session[k].ttlAt
     /\ \E l \in logins : l.sessionID = j /\ l.expiresAt = session[j].ttlAt
     /\ \E l \in logins : l.sessionID = k /\ l.expiresAt = session[k].ttlAt

\* C38: the record GetOAuthCodeURL is about to write holds the redirect URL
\* of the request, or the configured one when the request has none, and
\* the URL it returns for a state carries the redirect URL of the record
\* of that state; a LoginByOAuth at the code exchange or behind it works
\* with the provider and the redirect URL of the record it validated.
C38_ExchangeUsesRecord ==
  \A p \in Procs :
     /\ (call[p].op = "GetOAuthCodeURL" /\ call[p].pc = "setState") =>
           /\ call[p].stateData.redirectURL =
                 (IF call[p].redirectURL # "" THEN call[p].redirectURL
                  ELSE GithubRedirectURL)
           /\ call[p].stateData.provider = call[p].provider
     /\ ( /\ call[p].op = "GetOAuthCodeURL" /\ call[p].status = "OK"
          /\ oauthState[call[p].url.state].exists ) =>
           call[p].url.redirect_uri = oauthState[call[p].url.state].redirectURL
     /\ (call[p].op = "LoginByOAuth" /\ call[p].pc \in BehindValidation) =>
           /\ call[p].stateData.exists
           /\ call[p].redirectURL = call[p].stateData.redirectURL
           /\ call[p].redirectURL # ""
           /\ call[p].provider = call[p].stateData.provider

\* C38 witness: a LoginByOAuth is at the code exchange with the redirect
\* URL that the GetOAuthCodeURL request had named, which is not the
\* configured one.
C38_Witness ==
  \E p \in Procs :
     /\ call[p].op = "LoginByOAuth" /\ call[p].pc = "exchange"
     /\ call[p].stateData.redirectURL = "https://custom/cb"
     /\ call[p].redirectURL = "https://custom/cb"
     /\ call[p].provider = "github"

\* the authorization value of the call in the gate, one "Bearer " removed,
\* is the given string
BearerValueIs(str) ==
  LET h == gate.authHeader[1]
  IN /\ h.cred.kind = "opaque" /\ h.cred.text = str
     /\ h.nBearer \in {0, 1}

\* C39: a call on a protected method under the marker "internal" is
\* admitted exactly when its authorization value, one leading "Bearer "
\* removed, is the configured internal token, whether an enforcer was built
\* or not; with the empty string configured, the empty bearer value is
\* admitted, on whichever protected method.
C39_NoEmptinessGuard ==
  ( /\ gate.method \in ProtectedMethods /\ gate.hasMD
    /\ Len(gate.authHeader) > 0 /\ gate.tokenType = <<"internal">> ) =>
     /\ gate.res.outcome = "Admitted" <=> BearerValueIs(cfg.internalToken)
     /\ (cfg.internalToken = "" /\ BearerValueIs("")) =>
           /\ gate.res.outcome = "Admitted" /\ gate.res.handler = 1
           /\ ~gate.res.policy

\* C39 witness: no internal token is configured, and DeleteUser, called
\* under the marker "internal" with "Bearer " and nothing behind it, is
\* admitted.
C39_Witness ==
  /\ cfg.internalToken = "" /\ cfg.enforcer
  /\ gate.method = "/UserService/DeleteUser"
  /\ gate.tokenType = <<"internal">>
  /\ Len(gate.authHeader) > 0 /\ gate.authHeader[1].nBearer = 1
  /\ BearerValueIs("")
  /\ gate.res.outcome = "Admitted" /\ gate.res.handler = 1

\* ------------------------------------------------- the token functions
\* C20 as claimed: for every subject, role, secret and expiry that lies
\* ahead, the token verifies with the same secret and gives back the
\* subject, the role and an exp equal to the expiry; the ExpiresAt the
\* token reports equals the expiry.
C20_RoundTripExact ==
  trip # NoTrip =>
     /\ ~trip.claims.err
     /\ trip.claims.user_id = trip.userID
     /\ convertRoleToString(trip.claims.user_role) = trip.role
     /\ Time(trip.claims.exp) = trip.expiresAt
     /\ trip.token.expiresAt = trip.expiresAt

\* C20 as amended: the token verifies with the same secret exactly if the
\* expiry cut to whole seconds still lies ahead; it then gives back the
\* subject, the role and an exp equal to the expiry cut to whole seconds;
\* the ExpiresAt the token reports equals the expiry, uncut.
C20_RoundTripSeconds ==
  trip # NoTrip =>
     /\ trip.token.expiresAt = trip.expiresAt
     /\ trip.claims.err <=> ~(trip.at < trip.expiresAt.sec)
     /\ ~trip.claims.err =>
           /\ trip.claims.user_id = trip.userID
           /\ convertRoleToString(trip.claims.user_role) = trip.role
           /\ trip.claims.exp = trip.expiresAt.sec

\* C20 witness: a token for an administrator, with an expiry between two
\* seconds, has been verified.
C20_Witness ==
  /\ trip # NoTrip /\ trip.role = "admin" /\ trip.expiresAt.nsec > 0
  /\ ~trip.claims.err /\ trip.claims.exp = trip.expiresAt.sec
  /\ trip.claims.user_role = "USER_ROLE_ADMIN"

\* ------------------------------------------------ the role conversions
\* C21: each conversion of a role takes admin to admin, user to user and
\* every other value to user: model role to wire role, wire role to model
\* role, and the role of a token to the role the policy is asked about.
C21_RoleFallback ==
  conv # NoConv =>
     /\ conv.toPb = IF conv.role = "admin" THEN "USER_ROLE_ADMIN"
                    ELSE "USER_ROLE_USER"
     /\ conv.fromPb = IF conv.pbRole = "USER_ROLE_ADMIN" THEN "admin"
                      ELSE "user"
     /\ conv.roleStr = IF conv.pbRole = "USER_ROLE_ADMIN" THEN "admin"
                       ELSE "user"

\* C21 witness: a model role that is neither constant and a wire role
\* without a name have both come out as user.
C21_Witness ==
  /\ conv.role = "root" /\ conv.pbRole = "UserRole(3)"
  /\ conv.toPb = "USER_ROLE_USER" /\ conv.fromPb = "user"
  /\ conv.roleStr = "user"

====
